---- MODULE Spec2Model ----
(***************************************************************************)
(* Model of the notebooks of workbench-example-llama2-finetune.             *)
(*                                                                         *)
(* The Dataset Preparer of code/llama2-ptuning.ipynb (the copy under       *)
(* code/llama-2-7b/ has the same cells): load_dataset, the preprocessing   *)
(* cell (filter, three rename_column calls, map(set_column)), os.makedirs, *)
(* the split cell that writes dolly_train.jsonl and dolly_val.jsonl, and   *)
(* the cell that writes dolly_test.jsonl.  Specification Spec.             *)
(*                                                                         *)
(* The Configuration Assembler of both notebooks: OmegaConf.load of a      *)
(* template, the attribute-path assignments of the override cells,         *)
(* OmegaConf.save, and the shell lines that move the saved file and launch *)
(* the training and evaluation processes; the directory, download,        *)
(* preprocessing and shortening cells of code/llama2-lora-ft.ipynb, whose   *)
(* SQuAD files are sequences of lines.  Specification SpecNotebooks.       *)
(*                                                                         *)
(* code/scripts/init.sh, line by line: specification SpecInit, and         *)
(* SpecInitLive for the script invoked again and again.  Both notebooks    *)
(* open at once in one working directory: specification SpecTwo.           *)
(*                                                                         *)
(* Strings are TLA+ strings; characters are strings of length one.  A file  *)
(* is the string of its bytes.  A dataset is columnar, as a Hugging Face    *)
(* Dataset is: an ordered list of column names and a list of rows, each row *)
(* the list of its values in column order.                                  *)
(***************************************************************************)
EXTENDS Integers, Sequences, FiniteSets, TLC

(***************************************************************************)
(* Bounds of the model.                                                     *)
(***************************************************************************)
\* every sequence of pool rows up to this length is a source
MaxShort == 2
\* periodic sources go up to this length
MaxN == 11
\* a dataset file is written at most this many times in a session
MaxWrites == 2
\* an override cell of the Assembler on its own has at most this many assignments
MaxOverrides == 2
\* the user goes back to a cell that has run at most this many times in a session
MaxReruns == 1

(***************************************************************************)
(* Python strings.                                                          *)
(***************************************************************************)
\* str.startswith(prefix)
startswith(s, prefix) ==
    /\ Len(s) >= Len(prefix)
    /\ SubSeq(s, 1, Len(prefix)) = prefix

RECURSIVE StrJoin(_, _)
\* sep.join(parts)
StrJoin(parts, sep) ==
    IF parts = << >> THEN ""
    ELSE IF Len(parts) = 1 THEN parts[1]
    ELSE parts[1] \o sep \o StrJoin(Tail(parts), sep)

(***************************************************************************)
(* json.dumps of a dict of strings (the defaults: ensure_ascii, separators  *)
(* ", " and ": ").  A dict is the sequence of its <<key, value>> items in   *)
(* insertion order.  The values of the model are ASCII; the characters that *)
(* json escapes among them are the quote, the backslash, the newline and    *)
(* the tab.                                                                 *)
(***************************************************************************)
\* a variant of EscChar that leaves the quote as it is
EscNoQuote(c) ==
    CASE c = "\\" -> "\\\\"
      [] c = "\n" -> "\\n"
      [] c = "\t" -> "\\t"
      [] OTHER    -> c

\* json.encoder: the escape of one character of a string
EscChar(c) ==
    CASE c = "\"" -> "\\\""
      [] c = "\\" -> "\\\\"
      [] c = "\n" -> "\\n"
      [] c = "\t" -> "\\t"
      [] OTHER    -> c

RECURSIVE EscStr(_)
\* the escapes of the characters of s, in order (by halves: the escape of a
\* character does not depend on its neighbours)
EscStr(s) ==
    IF Len(s) = 0 THEN ""
    ELSE IF Len(s) = 1 THEN EscChar(s)
    ELSE LET h == Len(s) \div 2 IN
         EscStr(SubSeq(s, 1, h)) \o EscStr(SubSeq(s, h + 1, Len(s)))

\* json.dumps(str)
DumpsStr(s) == "\"" \o EscStr(s) \o "\""

DumpsItem(kv) == DumpsStr(kv[1]) \o ": " \o DumpsStr(kv[2])

\* json.dumps(dict)
Dumps(item) ==
    "{" \o StrJoin([i \in 1..Len(item) |-> DumpsItem(item[i])], ", ") \o "}"

(***************************************************************************)
(* json.loads of one line: a recursive-descent parser of an object whose    *)
(* values are strings.  A result is [ok, val]; ok is FALSE for a text that  *)
(* is no such object (json.JSONDecodeError).                                *)
(***************************************************************************)
ParseError == [ok |-> FALSE, val |-> "", next |-> 0]

CharAt(s, i) == IF i >= 1 /\ i <= Len(s) THEN SubSeq(s, i, i) ELSE ""

RECURSIVE SkipWs(_, _)
SkipWs(s, i) == IF CharAt(s, i) \in {" ", "\t"} THEN SkipWs(s, i + 1) ELSE i

\* the character an escape sequence \c stands for ("" when \c is no escape)
Unescape(c) ==
    CASE c = "n" -> "\n"
      [] c = "t" -> "\t"
      [] c = "\"" -> "\""
      [] c = "\\" -> "\\"
      [] OTHER    -> ""

Min(S) == CHOOSE x \in S : \A y \in S : x <= y

RECURSIVE ScanStr(_, _, _, _)
\* the characters of a string literal from position i (after the opening
\* quote) to its closing quote: the text up to the next quote, backslash or
\* newline is taken as it is, as json.decoder.scanstring takes it.  sp is
\* the set of the positions of s that hold one of these three characters.
ScanStr(s, sp, i, acc) ==
    LET special == {j \in sp : j >= i} IN
    IF special = {} THEN ParseError
    ELSE LET j     == Min(special)
             c     == CharAt(s, j)
             chunk == acc \o SubSeq(s, i, j - 1) IN
    IF c = "\n" THEN ParseError
    ELSE IF c = "\"" THEN [ok |-> TRUE, val |-> chunk, next |-> j + 1]
    ELSE LET u == Unescape(CharAt(s, j + 1)) IN
         IF u = "" THEN ParseError ELSE ScanStr(s, sp, j + 2, chunk \o u)

ParseStr(s, sp, i) ==
    IF CharAt(s, i) = "\"" THEN ScanStr(s, sp, i + 1, "") ELSE ParseError

RECURSIVE ParseItems(_, _, _, _)
\* the items of an object from position i (at a key)
ParseItems(s, sp, i, acc) ==
    LET k == ParseStr(s, sp, SkipWs(s, i)) IN
    IF ~k.ok THEN [ok |-> FALSE, val |-> << >>]
    ELSE LET j == SkipWs(s, k.next) IN
    IF CharAt(s, j) # ":" THEN [ok |-> FALSE, val |-> << >>]
    ELSE LET v == ParseStr(s, sp, SkipWs(s, j + 1)) IN
    IF ~v.ok THEN [ok |-> FALSE, val |-> << >>]
    ELSE LET e   == SkipWs(s, v.next)
             got == Append(acc, <<k.val, v.val>>) IN
    IF CharAt(s, e) = "," THEN ParseItems(s, sp, e + 1, got)
    ELSE IF CharAt(s, e) = "}" /\ SkipWs(s, e + 1) = Len(s) + 1
         THEN [ok |-> TRUE, val |-> got]
    ELSE [ok |-> FALSE, val |-> << >>]

\* json.loads(line)
Loads(line) ==
    LET i == SkipWs(line, 1) IN
    IF CharAt(line, i) # "{" THEN [ok |-> FALSE, val |-> << >>]
    ELSE IF CharAt(line, SkipWs(line, i + 1)) = "}"
         THEN [ok  |-> SkipWs(line, SkipWs(line, i + 1) + 1) = Len(line) + 1,
               val |-> << >>]
    ELSE ParseItems(line,
                    {j \in 1..Len(line) : SubSeq(line, j, j) \in {"\"", "\\", "\n"}},
                    i + 1, << >>)

\* the lines of a text whose newlines are at the positions nl
LinesAt(content, nl) ==
    LET n      == Cardinality(nl)
        end(k) == CHOOSE p \in nl : Cardinality({q \in nl : q <= p}) = k
        beg(k) == IF k = 1 THEN 1 ELSE end(k - 1) + 1
        whole  == [k \in 1..n |-> SubSeq(content, beg(k), end(k) - 1)]
        rest   == IF n = 0 THEN content ELSE SubSeq(content, end(n) + 1, Len(content))
    IN  IF rest = "" THEN whole ELSE Append(whole, rest)

\* the lines of a file, each without its terminating newline; text after
\* the last newline is a line too (iterating a Python file object)
Lines(content) ==
    LinesAt(content, {i \in 1..Len(content) : SubSeq(content, i, i) = "\n"})

(***************************************************************************)
(* The datasets library: a Dataset is [columns, rows].                      *)
(***************************************************************************)
Range(f) == {f[i] : i \in DOMAIN f}

\* the position of a column, 0 when the dataset has no such column
ColIndex(columns, name) ==
    IF name \in Range(columns)
    THEN CHOOSE i \in 1..Len(columns) : columns[i] = name
    ELSE 0

\* dataset[r]: the example of row r as a dict, its keys in column order
Item(ds, r) == [i \in 1..Len(ds.columns) |-> <<ds.columns[i], ds.rows[r][i]>>]

Result(e, ds) == [err |-> e, ds |-> ds]

\* a variant of Filter that keeps every row when the column is missing
FilterMissingKeepsAll(ds, column, prefix) ==
    LET c == ColIndex(ds.columns, column) IN
    IF ds.rows = << >> \/ c = 0 THEN Result("none", ds)
    ELSE Result("none",
                [ds EXCEPT !.rows =
                    SelectSeq(ds.rows, LAMBDA row : startswith(row[c], prefix))])

\* dataset.filter(lambda example: example[column].startswith(prefix)): the
\* lambda runs on every row, and example[column] raises KeyError when the
\* dataset has no such column; a dataset without rows is returned as it is
Filter(ds, column, prefix) ==
    LET c == ColIndex(ds.columns, column) IN
    IF ds.rows = << >> THEN Result("none", ds)
    ELSE IF c = 0 THEN Result("KeyError", ds)
    ELSE Result("none",
                [ds EXCEPT !.rows =
                    SelectSeq(ds.rows, LAMBDA row : startswith(row[c], prefix))])

\* dataset.rename_column(old, new): ValueError when old is no column of the
\* dataset or new already is one
rename_column(ds, old, new) ==
    LET c == ColIndex(ds.columns, old) IN
    IF c = 0 \/ new \in Range(ds.columns) THEN Result("ValueError", ds)
    ELSE Result("none", [ds EXCEPT !.columns[c] = new])

\* a variant of set_column that keeps the value of an existing column
set_column_keeps(ds, key, value) ==
    LET c == ColIndex(ds.columns, key) IN
    IF ds.rows = << >> \/ c # 0 THEN Result("none", ds)
    ELSE Result("none",
                [columns |-> Append(ds.columns, key),
                 rows    |-> [r \in 1..Len(ds.rows) |-> Append(ds.rows[r], value)]])

\* dataset.map(set_column), set_column being example[key] = value: the value
\* replaces the one of an existing column, and a new column is added last;
\* a dataset without rows is returned as it is
set_column(ds, key, value) ==
    LET c == ColIndex(ds.columns, key) IN
    IF ds.rows = << >> THEN Result("none", ds)
    ELSE IF c # 0
    THEN Result("none",
                [ds EXCEPT !.rows =
                    [r \in 1..Len(ds.rows) |-> [ds.rows[r] EXCEPT ![c] = value]]])
    ELSE Result("none",
                [columns |-> Append(ds.columns, key),
                 rows    |-> [r \in 1..Len(ds.rows) |-> Append(ds.rows[r], value)]])

(***************************************************************************)
(* The preprocessing cell: its five statements, each dataset = dataset.op.  *)
(***************************************************************************)
\* a variant of PreprocessCell with its last two statements exchanged
InjectBeforeRename ==
    << [op |-> "filter", a |-> "category",    b |-> "closed_qa"],
       [op |-> "rename", a |-> "instruction", b |-> "question"],
       [op |-> "rename", a |-> "response",    b |-> "answer"],
       [op |-> "map",    a |-> "taskname",    b |-> "genqa"],
       [op |-> "rename", a |-> "category",    b |-> "taskname"] >>

PreprocessCell ==
    << [op |-> "filter", a |-> "category",    b |-> "closed_qa"],
       [op |-> "rename", a |-> "instruction", b |-> "question"],
       [op |-> "rename", a |-> "response",    b |-> "answer"],
       [op |-> "rename", a |-> "category",    b |-> "taskname"],
       [op |-> "map",    a |-> "taskname",    b |-> "genqa"] >>

\* one statement of the preprocessing cell on the dataset bound to `dataset`
Exec(st, ds) ==
    CASE st.op = "filter" -> Filter(ds, st.a, st.b)
      [] st.op = "rename" -> rename_column(ds, st.a, st.b)
      [] st.op = "map"    -> set_column(ds, st.a, st.b)

(***************************************************************************)
(* The split cell.                                                          *)
(***************************************************************************)
\* train_test_split = 0.9, as the fraction 9/10
train_test_split == [num |-> 9, den |-> 10]

\* a variant of Threshold that rounds up
ThresholdCeil(n) ==
    (train_test_split.num * n + train_test_split.den - 1) \div train_test_split.den

\* int(train_test_split*len(dataset['train'])): the double nearest 0.9 lies
\* above 9/10 by less than 3e-17, so the product truncates to floor(9n/10)
\* for every n a dataset can have
Threshold(n) == (train_test_split.num * n) \div train_test_split.den

\* range(len(dataset['train'])): the indexes enumerate yields
Indexes(ds) == 0..(Len(ds.rows) - 1)

RECURSIVE WriteLoop(_, _, _)
\* for index, item in enumerate(dataset['train']):
\*     if keep[index]: f.write(json.dumps(item) + "\n")
\* from row r on: the text written (index = r - 1)
WriteLoop(ds, r, keep) ==
    IF r > Len(ds.rows) THEN ""
    ELSE (IF keep[r - 1] THEN Dumps(Item(ds, r)) \o "\n" ELSE "")
         \o WriteLoop(ds, r + 1, keep)

\* a variant of TrainText that tests index <= int(...)
TrainTextInclusive(ds) ==
    WriteLoop(ds, 1, [index \in Indexes(ds) |-> index <= Threshold(Len(ds.rows))])

\* the text the first with block writes: if index < int(...)
TrainText(ds) ==
    WriteLoop(ds, 1, [index \in Indexes(ds) |-> index < Threshold(Len(ds.rows))])

\* the text the second with block writes: if index >= int(...)
ValText(ds) ==
    WriteLoop(ds, 1, [index \in Indexes(ds) |-> index >= Threshold(Len(ds.rows))])

(***************************************************************************)
(* The file system: the directory DATA_DIR and the three dataset files.     *)
(***************************************************************************)
DATA_DIR == "/project/data"
TrainPath == "/project/data/dolly_train.jsonl"
ValPath == "/project/data/dolly_val.jsonl"
TestPath == "/project/data/dolly_test.jsonl"
Paths == {TrainPath, ValPath, TestPath}

NoFile == [exists |-> FALSE, content |-> ""]

\* a variant of OpenWrite that opens in mode 'a'
OpenAppend(files, path, text) ==
    [files EXCEPT ![path] = [exists |-> TRUE, content |-> files[path].content \o text]]

\* a variant of OpenWrite that creates the file at the first write
OpenWriteLazy(files, path, text) ==
    IF text = "" THEN files
    ELSE [files EXCEPT ![path] = [exists |-> TRUE, content |-> text]]

\* with open(path, 'w') as f: f.write(text) -- 'w' (and 'w+') creates the
\* file or truncates the one there, and the text is all it holds at close
OpenWrite(files, path, text) ==
    [files EXCEPT ![path] = [exists |-> TRUE, content |-> text]]

\* the list `test` of the test-file cell
test ==
    << << <<"question", "Is the lawn mower product solar powered?">>,
          <<"context", "The Auto Chef Master is a personal kitchen robot that effortlessly turns raw ingredients into gourmet meals with the precision of a Michelin-star chef. The Eco Lawn Mower is a solar powered high-tech lawn mower that provides an eco-friendly and efficient way to maintain your lawn.">>,
          <<"answer", "Yes, the Eco Lawn Mower is solar powered.">>,
          <<"taskname", "genqa">> >> >>

\* for entry in test: json.dump(entry, outfile); outfile.write('\n')
TestText == StrJoin([i \in 1..Len(test) |-> Dumps(test[i]) \o "\n"], "")

(***************************************************************************)
(* The source on the hub: aisquared/databricks-dolly-15k has one split,     *)
(* train, with the columns instruction, context, response and category.     *)
(* The rows of the model are drawn from a pool whose values hold the        *)
(* characters json escapes, and whose categories are closed_qa, a category  *)
(* that only begins with closed_qa, and two others.                         *)
(***************************************************************************)
RawColumns == <<"instruction", "context", "response", "category">>

Pool ==
    << <<"q1", "c\"1", "a\\1", "closed_qa">>,
       <<"q2", "c2",   "a2",   "open_qa">>,
       <<"q3", "c\t3", "a\n3", "closed_qa">>,
       <<"q4", "",     "a4",   "closed_qa_v2">>,
       <<"q5", "c5",   "a5",   "classification">> >>

Strides == {0, 1}

\* row i is the pool's row o + (i-1)*s, counted round the pool
Periodic(n, o, s) ==
    [i \in 1..n |-> Pool[((o - 1 + (i - 1) * s) % Len(Pool)) + 1]]

SeqsUpTo(S, n) == UNION {[1..k -> S] : k \in 0..n}

Sources ==
    SeqsUpTo(Range(Pool), MaxShort)
    \cup {Periodic(n, o, s) : n \in (MaxShort + 1)..MaxN, o \in 1..Len(Pool), s \in Strides}

\* what an earlier session left in a dataset file
StaleText ==
    Dumps(<< <<"question", "old">>, <<"context", "old">>,
             <<"answer", "old">>, <<"taskname", "genqa">> >>) \o "\n"

(***************************************************************************)
(* OmegaConf.  A configuration document (a DictConfig) is the function from *)
(* its key paths to its nodes: a key path is the sequence of the keys from  *)
(* the root, and a node is a nested mapping or a leaf with its value (a     *)
(* scalar or a list, written as the Python literal).  Every proper prefix   *)
(* of a key path of a document is a key path of it, and a mapping.          *)
(***************************************************************************)
Mapping == [kind |-> "map", val |-> ""]

Leaf(v) == [kind |-> "leaf", val |-> v]

\* the keys of an attribute path written a.b.c
KeyPath(dotted) ==
    LinesAt(dotted \o ".",
            {i \in 1..(Len(dotted) + 1) : SubSeq(dotted \o ".", i, i) = "."})

Prefixes(p) == {SubSeq(p, 1, n) : n \in 1..Len(p)}

\* p is q or an ancestor of q
IsPrefix(p, q) == Len(p) <= Len(q) /\ SubSeq(q, 1, Len(p)) = p

\* the document whose leaves are the given <<attribute path, value>> items
Document(items) ==
    LET leaves == {<<KeyPath(items[i][1]), items[i][2]>> : i \in 1..Len(items)}
        paths  == {l[1] : l \in leaves}
    IN  [q \in UNION {Prefixes(p) : p \in paths} |->
            IF q \in paths
            THEN Leaf((CHOOSE l \in leaves : l[1] = q)[2])
            ELSE Mapping]

Outcome(e, doc) == [err |-> e, doc |-> doc]

\* config.a.b: every key before the last is read with getattr, which needs
\* the key to be there (OmegaConf raises ConfigAttributeError, or gives None,
\* for a key that is not) and its node to be a mapping
Resolves(doc, p) ==
    \A n \in 1..(Len(p) - 1) :
        /\ SubSeq(p, 1, n) \in DOMAIN doc
        /\ doc[SubSeq(p, 1, n)].kind = "map"

\* a variant of WithLeaf that keeps, of the other keys, only those above p
WithLeafAlone(doc, p, v) ==
    [q \in {q \in DOMAIN doc : IsPrefix(q, p) /\ q # p} \cup {p} |->
        IF q = p THEN Leaf(v) ELSE doc[q]]

\* the document with the leaf v at p, in place of what was at p and below
WithLeaf(doc, p, v) ==
    [q \in {q \in DOMAIN doc : ~IsPrefix(p, q)} \cup {p} |->
        IF q = p THEN Leaf(v) ELSE doc[q]]

\* a variant of Assign that adds the mappings that are missing on the way
AssignCreating(doc, p, v) ==
    LET kept == {q \in DOMAIN doc :
                    /\ ~IsPrefix(p, q)
                    /\ \A a \in Prefixes(q) : IsPrefix(a, p) => doc[a].kind = "map"}
    IN  Outcome("none",
                [q \in kept \cup Prefixes(p) |->
                    IF q = p THEN Leaf(v)
                    ELSE IF q \in kept THEN doc[q]
                    ELSE Mapping])

\* a variant of Assign that keeps the value of a key that has one
AssignKeepsFirst(doc, p, v) ==
    IF ~Resolves(doc, p) THEN Outcome("AttributeError", doc)
    ELSE IF p \in DOMAIN doc THEN Outcome("none", doc)
    ELSE Outcome("none", WithLeaf(doc, p, v))

\* the statement config.a.b.c = v on a document loaded from YAML (no struct
\* flag, untyped nodes): setattr on the mapping config.a.b
Assign(doc, p, v) ==
    IF ~Resolves(doc, p) THEN Outcome("AttributeError", doc)
    ELSE Outcome("none", WithLeaf(doc, p, v))

RECURSIVE OverrideFrom(_, _, _)
\* the assignments of a cell from the i-th on, in the order written; the
\* first that raises ends the cell, and config stays as the ones before
\* left it
OverrideFrom(doc, overrides, i) ==
    IF i > Len(overrides) THEN Outcome("none", doc)
    ELSE LET r == Assign(doc, KeyPath(overrides[i][1]), overrides[i][2]) IN
         IF r.err # "none" THEN r
         ELSE OverrideFrom(r.doc, overrides, i + 1)

\* the assignments of an override cell on the document bound to config
Override(doc, overrides) == OverrideFrom(doc, overrides, 1)

(***************************************************************************)
(* The configuration cells of the two notebooks: the assignments of each    *)
(* override cell, as <<attribute path, value>> in the order written.        *)
(***************************************************************************)
\* llama2-ptuning.ipynb, the cell after the load of the training template
PtuningTrainOverrides ==
    << <<"trainer.precision", "\"32\"">>,
       <<"trainer.devices", "1">>,
       <<"trainer.num_nodes", "1">>,
       <<"trainer.max_epochs", "3">>,
       <<"model.restore_from_path", "\"/project/models/llama-7b.nemo\"">>,
       <<"model.peft.peft_scheme", "\"ptuning\"">>,
       <<"model.data.train_ds.file_names", "[\"/project/data/dolly_train.jsonl\"]">>,
       <<"model.data.validation_ds.file_names", "[\"/project/data/dolly_val.jsonl\"]">>,
       <<"model.global_batch_size", "2">>,
       <<"model.micro_batch_size", "1">>,
       <<"model.optim.lr", "0.0001">>,
       <<"model.data.train_ds.concat_sampling_probabilities", "[1.0]">>,
       <<"model.data.train_ds.prompt_template",
         "\"Context: {context}\\n\\nQuestion: {question}\\n\\nAnswer:{answer}\"">>,
       <<"model.peft.p_tuning.virtual_tokens", "15">>,
       <<"model.data.train_ds.label_key", "\"answer\"">>,
       <<"model.data.train_ds.truncation_field", "\"context\"">> >>

\* llama2-ptuning.ipynb, the evaluation configuration cell
PtuningEvalOverrides ==
    << <<"peft_scheme", "\"ptuning\"">>,
       <<"model.restore_from_path", "\"/project/models/llama-7b.nemo\"">>,
       <<"model.peft.restore_from_path",
         "\"/project/code/nemo_experiments/megatron_gpt_peft_tuning/checkpoints/megatron_gpt_peft_tuning.nemo\"">>,
       <<"model.data.test_ds.file_names", "[\"/project/data/dolly_test.jsonl\"]">>,
       <<"model.data.test_ds.names", "\"dolly\"">>,
       <<"model.data.test_ds.global_batch_size", "2">>,
       <<"model.data.test_ds.micro_batch_size", "1">>,
       <<"model.data.test_ds.write_predictions_to_file", "True">>,
       <<"model.data.test_ds.output_file_path_prefix", "\"/project/code/predictions\"">>,
       <<"model.data.test_ds.prompt_template",
         "\"Context: {context}\\n\\nQuestion: {question}\\n\\nAnswer: {answer}\"">> >>

\* llama2-lora-ft.ipynb, the cell after the load of the training template
\* (SQUAD_DIR is /project/data/SQuAD and NEMO_DIR is /project/code)
LoraTrainOverrides ==
    << <<"trainer.precision", "32">>,
       <<"trainer.devices", "1">>,
       <<"trainer.max_epochs", "4">>,
       <<"trainer.val_check_interval", "1.0">>,
       <<"trainer.max_steps", "1000">>,
       <<"trainer.val_check_interval", "50">>,
       <<"model.peft.peft_scheme", "\"lora\"">>,
       <<"model.data.train_ds.file_names", "[\"/project/data/SQuAD/squad_short_train.jsonl\"]">>,
       <<"model.data.train_ds.concat_sampling_probabilities", "[1.0]">>,
       <<"model.data.validation_ds.file_names", "[\"/project/data/SQuAD/squad_short_val.jsonl\"]">>,
       <<"model.data.validation_ds.names", "[\"squad_val\"]">>,
       <<"model.data.train_ds.prompt_template", "\"{input} {output}\"">>,
       <<"model.restore_from_path", "\"/project/models/llama-7b.nemo\"">>,
       <<"exp_manager.exp_dir", "\"/project/code/peft_lora\"">>,
       <<"exp_manager.explicit_log_dir", "\"training_info\"">>,
       <<"model.micro_batch_size", "1">>,
       <<"model.global_batch_size", "4">>,
       <<"model.data.train_ds.num_workers", "0">>,
       <<"model.data.validation_ds.num_workers", "0">> >>

\* llama2-lora-ft.ipynb, the evaluation configuration cell
LoraEvalOverrides ==
    << <<"model.restore_from_path", "\"/project/models/llama-7b.nemo\"">>,
       <<"model.peft.restore_from_path",
         "\"/project/code/training_info/checkpoints/megatron_gpt_peft_tuning.nemo\"">>,
       <<"model.data.test_ds.file_names", "[\"/project/data/SQuAD/squad_short_val.jsonl\"]">>,
       <<"model.data.test_ds.names", "[\"squad\"]">>,
       <<"model.data.test_ds.global_batch_size", "1">>,
       <<"model.data.test_ds.micro_batch_size", "1">>,
       <<"model.data.test_ds.tokens_to_generate", "30">>,
       <<"model.data.test_ds.write_predictions_to_file", "True">>,
       <<"model.data.test_ds.output_file_path_prefix", "\"/project/code/predictions\"">>,
       <<"inference.greedy", "True">> >>

(***************************************************************************)
(* The YAML files: the two templates of the NeMo container, the files       *)
(* OmegaConf.save writes to the working directory, and those files moved    *)
(* to the directory of the templates.  A file is [exists, whole, doc]: the  *)
(* document it holds, and whether it was written to its end.                *)
(***************************************************************************)
ConfDir == "/opt/NeMo/examples/nlp/language_modeling/tuning/conf/"
TuningTemplate == "/opt/NeMo/examples/nlp/language_modeling/tuning/conf/megatron_gpt_peft_tuning_config.yaml"
EvalTemplate == "/opt/NeMo/examples/nlp/language_modeling/tuning/conf/megatron_gpt_peft_eval_config.yaml"
TrainConfig == "llama-config.yaml"
EvalConfig == "llama-eval-config.yaml"

\* the path of a file of the working directory after mv to ConfDir
InConf(name) == ConfDir \o name

YamlPaths ==
    {TuningTemplate, EvalTemplate, TrainConfig, EvalConfig,
     InConf(TrainConfig), InConf(EvalConfig)}

NoDoc == Document(<< >>)

NoYaml == [exists |-> FALSE, whole |-> FALSE, doc |-> NoDoc]

YamlOf(doc) == [exists |-> TRUE, whole |-> TRUE, doc |-> doc]

\* a file that OmegaConf.save opened and did not write to its end
Truncated == [exists |-> TRUE, whole |-> FALSE, doc |-> NoDoc]

\* the templates the model draws: documents of the shape of NeMo's
\* megatron_gpt_peft_tuning_config.yaml, with the mappings the notebooks
\* assign into and keys no notebook assigns
TuningTemplates ==
    { Document(<< <<"name", "megatron_gpt_peft_tuning">>,
                  <<"trainer.devices", "1">>,
                  <<"trainer.accelerator", "gpu">>,
                  <<"trainer.precision", "16">>,
                  <<"trainer.val_check_interval", "0.2">>,
                  <<"exp_manager.explicit_log_dir", "null">>,
                  <<"model.seed", "1234">>,
                  <<"model.restore_from_path", "???">>,
                  <<"model.peft.peft_scheme", "adapter">>,
                  <<"model.peft.p_tuning.virtual_tokens", "10">>,
                  <<"model.peft.lora_tuning.adapter_dim", "32">>,
                  <<"model.data.train_ds.file_names", "???">>,
                  <<"model.data.train_ds.max_seq_length", "2048">>,
                  <<"model.data.validation_ds.file_names", "???">>,
                  <<"model.optim.name", "fused_adam">>,
                  <<"model.optim.lr", "1e-4">> >>),
      Document(<< <<"trainer.precision", "bf16">>,
                  <<"trainer.val_check_interval", "50">>,
                  <<"trainer.max_steps", "1000">>,
                  <<"exp_manager.exp_dir", "null">>,
                  <<"model.seed", "1">>,
                  <<"model.peft.p_tuning.bottleneck_dim", "1024">>,
                  <<"model.data.train_ds.prompt_template", "{input} {output}">>,
                  <<"model.data.validation_ds.names", "null">>,
                  <<"model.optim.lr", "1e-4">> >>) }

\* documents of the shape of megatron_gpt_peft_eval_config.yaml; the second
\* has a key peft_scheme at its top, the first has none
EvalTemplates ==
    { Document(<< <<"name", "megatron_gpt_peft_eval">>,
                  <<"trainer.devices", "1">>,
                  <<"trainer.precision", "16">>,
                  <<"model.seed", "1234">>,
                  <<"model.restore_from_path", "???">>,
                  <<"model.peft.restore_from_path", "???">>,
                  <<"model.data.test_ds.file_names", "???">>,
                  <<"model.data.test_ds.tokens_to_generate", "32">>,
                  <<"inference.greedy", "True">>,
                  <<"inference.top_k", "0">> >>),
      Document(<< <<"peft_scheme", "adapter">>,
                  <<"trainer.devices", "2">>,
                  <<"model.peft.peft_scheme", "adapter">>,
                  <<"model.data.test_ds.names", "null">>,
                  <<"inference.greedy", "False">> >>) }

(***************************************************************************)
(* State.                                                                   *)
(***************************************************************************)
VARIABLES
    source,     \* the rows load_dataset fetches
    dataset,    \* the notebook's variable dataset (its train split)
    dir,        \* whether DATA_DIR exists
    files,      \* the dataset files: path -> [exists, content]
    cell,       \* the cell that is running, "none" between cells
    stmt,       \* the next statement of the running cell
    nextCell,   \* the position in the session of the next cell to run in order
    err,        \* the exception that ended the last cell, "none" without one
    writes,     \* history: how often each file was opened for writing
    session,    \* the code cells the user runs, in notebook order
    overrides,  \* the assignments written in the override cells: [train, eval]
    config,     \* the notebook's variable config: [bound, doc]
    yaml,       \* the YAML files: path -> [exists, whole, doc]
    failed,     \* a shell line of the cell that ran last exited with an error
    present,    \* the other files and directories there are
    reruns,     \* history: how often the user went back to a cell that has run
    LLAMA2_SIZE, \* the environment variable LLAMA2_SIZE
    other,      \* the next cell of the other notebook, open in a kernel of
                \* its own; 0 when it is not open
    squad       \* the SQuAD files in JSON lines: path -> [exists, lines]

vars ==
    <<source, dataset, dir, files, cell, stmt, nextCell, err, writes,
      session, overrides, config, yaml, failed, present, reruns, LLAMA2_SIZE,
      other, squad>>

\* what the cells that prepare the dataset work on
preparer == <<source, dataset, dir, files, writes, squad>>

\* what the configuration cells and the launches work on
assembler == <<config, yaml>>

\* what no statement of a cell of this notebook changes
written == <<session, overrides, reruns, LLAMA2_SIZE, other>>

\* the cells of the notebook that prepare the dataset, in notebook order
CellOrder == <<"load", "preprocess", "makedirs", "split", "test">>

\* the code cells of llama2-ptuning.ipynb from the load of the dataset on
\* (without the cells that only display)
PtuningCells ==
    <<"load", "preprocess", "makedirs", "split",
      "trainLoad", "trainOverride", "trainSave", "trainMv", "trainLaunch",
      "test", "evalConfig", "evalLaunch">>

\* the code cells of llama2-lora-ft.ipynb that make the directories,
\* download SQuAD, preprocess it and shorten it
SquadCells == <<"squadDirs", "download", "squadPreprocess", "shorten">>

\* the code cells of llama2-lora-ft.ipynb that write the configurations
\* and launch the processes
LoraCells ==
    <<"trainLoad", "trainOverride", "trainSave", "trainMv", "trainLaunch",
      "evalConfig", "evalLaunch">>

\* the code cells of llama2-lora-ft.ipynb without the download and the
\* preprocessing, whose outcome is there at the start
ShortLoraCells == <<"squadDirs", "shorten">> \o LoraCells

\* the three cells that load a template, override it and save it
AssemblerCells == <<"trainLoad", "trainOverride", "trainSave">>

CellIndex(c) == CHOOSE k \in 1..Len(session) : session[k] = c

Unbound == [columns |-> << >>, rows |-> << >>]

NoConfig == [bound |-> FALSE, doc |-> NoDoc]

SQUAD_DIR == "/project/data/SQuAD"

\* the sizes of Llama 2, and the one of the project's environment
Sizes == {"7b", "13b", "70b"}

DefaultSize == "7b"

SquadFiles == <<"train-v1.1.json", "dev-v1.1.json">>

\* the files the preprocessing script writes, and the shortened ones
SquadTrain == SQUAD_DIR \o "/squad_train.jsonl"

SquadVal == SQUAD_DIR \o "/squad_val.jsonl"

ShortTrain == SQUAD_DIR \o "/squad_short_train.jsonl"

ShortVal == SQUAD_DIR \o "/squad_short_val.jsonl"

SquadPaths == {SquadTrain, SquadVal, ShortTrain, ShortVal}

NoLines == [exists |-> FALSE, lines |-> << >>]

NoSquad == [p \in SquadPaths |-> NoLines]

\* head -5000, head -500
HeadTrain == 5000

HeadVal == 500

\* the examples of squad_train.jsonl and of squad_val.jsonl, one a line
SquadTrainLines(n) == [i \in 1..n |-> i]

SquadValLines(n) == [i \in 1..n |-> 0 - i]

\* a line that an earlier session wrote
StaleLine == 0

\* head -<n>: the first n lines, all of them when there are fewer
HeadLines(n, lines) == SubSeq(lines, 1, IF Len(lines) < n THEN Len(lines) ELSE n)

\* a kernel that has run no cell yet
Fresh ==
    /\ dataset = Unbound
    /\ cell = "none"
    /\ stmt = 0
    /\ nextCell = 1
    /\ err = "none"
    /\ writes = [p \in Paths |-> 0]
    /\ config = NoConfig
    /\ failed = FALSE
    /\ reruns = 0

Init ==
    /\ source \in Sources
    /\ \/ dir = FALSE /\ files = [p \in Paths |-> NoFile]
       \/ dir = TRUE  /\ files = [p \in Paths |-> NoFile]
       \/ dir = TRUE  /\ files = [p \in Paths |-> [exists |-> TRUE, content |-> StaleText]]
    /\ session = CellOrder
    /\ overrides = [train |-> << >>, eval |-> << >>]
    /\ yaml = [p \in YamlPaths |-> NoYaml]
    /\ LLAMA2_SIZE = DefaultSize
    /\ other = 0
    /\ present = {}
    /\ squad = NoSquad
    /\ Fresh

(***************************************************************************)
(* Running the notebook.  The cells run in notebook order; a cell that has  *)
(* run may be run again, and the run then goes on from that cell.  A cell   *)
(* that raises stops there: the statements after the raise do not run.      *)
(***************************************************************************)
\* a variant of RunCell that runs any cell at any time
RunAnyCell(k) ==
    /\ cell = "none"
    /\ k < nextCell => reruns < MaxReruns
    /\ session[k] = "split" => writes[TrainPath] < MaxWrites
    /\ session[k] = "test" => writes[TestPath] < MaxWrites
    /\ cell' = session[k]
    /\ stmt' = 1
    /\ err' = "none"
    /\ failed' = FALSE
    /\ reruns' = IF k < nextCell THEN reruns + 1 ELSE reruns
    /\ UNCHANGED <<preparer, assembler, session, overrides, nextCell, present,
                   LLAMA2_SIZE, other>>

\* the user runs cell k: the next cell, or the cell that raised, or (going
\* back) a cell that has run
RunCell(k) ==
    /\ cell = "none"
    /\ k <= nextCell
    /\ k < nextCell => reruns < MaxReruns
    /\ session[k] = "split" => writes[TrainPath] < MaxWrites
    /\ session[k] = "test" => writes[TestPath] < MaxWrites
    /\ cell' = session[k]
    /\ stmt' = 1
    /\ err' = "none"
    /\ failed' = FALSE
    /\ reruns' = IF k < nextCell THEN reruns + 1 ELSE reruns
    /\ UNCHANGED <<preparer, assembler, session, overrides, nextCell, present,
                   LLAMA2_SIZE, other>>

\* the running cell ran its last statement
Finish ==
    /\ cell' = "none"
    /\ stmt' = 0
    /\ nextCell' = CellIndex(cell) + 1
    /\ err' = "none"

\* the running cell raised e
Abort(e) ==
    /\ cell' = "none"
    /\ stmt' = 0
    /\ err' = e
    /\ UNCHANGED nextCell

\* dataset = load_dataset("aisquared/databricks-dolly-15k")
LoadCell ==
    /\ cell = "load"
    /\ dataset' = [columns |-> RawColumns, rows |-> source]
    /\ Finish
    /\ UNCHANGED <<squad, source, dir, files, writes>>
    /\ UNCHANGED <<assembler, written, failed, present>>

\* one statement of the preprocessing cell: dataset = dataset.<op>(...)
PreprocessStmt ==
    /\ cell = "preprocess"
    /\ LET r == Exec(PreprocessCell[stmt], dataset) IN
       \/ /\ r.err = "none"
          /\ dataset' = r.ds
          /\ IF stmt < Len(PreprocessCell)
             THEN stmt' = stmt + 1 /\ UNCHANGED <<cell, nextCell, err>>
             ELSE Finish
       \/ /\ r.err # "none"
          /\ Abort(r.err)
          /\ UNCHANGED dataset
    /\ UNCHANGED <<squad, source, dir, files, writes>>
    /\ UNCHANGED <<assembler, written, failed, present>>

\* os.makedirs(DATA_DIR, exist_ok=True)
MakedirsCell ==
    /\ cell = "makedirs"
    /\ dir' = TRUE
    /\ Finish
    /\ UNCHANGED <<squad, source, dataset, files, writes>>
    /\ UNCHANGED <<assembler, written, failed, present>>

\* with open("/project/data/dolly_train.jsonl", 'w') as f: ...
SplitTrain ==
    /\ cell = "split"
    /\ stmt = 1
    /\ dir
    /\ files' = OpenWrite(files, TrainPath, TrainText(dataset))
    /\ writes' = [writes EXCEPT ![TrainPath] = @ + 1]
    /\ stmt' = 2
    /\ UNCHANGED <<squad, source, dataset, dir, cell, nextCell, err>>
    /\ UNCHANGED <<assembler, written, failed, present>>

\* with open("/project/data/dolly_val.jsonl", 'w') as f: ...
SplitVal ==
    /\ cell = "split"
    /\ stmt = 2
    /\ dir
    /\ files' = OpenWrite(files, ValPath, ValText(dataset))
    /\ writes' = [writes EXCEPT ![ValPath] = @ + 1]
    /\ Finish
    /\ UNCHANGED <<squad, source, dataset, dir>>
    /\ UNCHANGED <<assembler, written, failed, present>>

\* with open('/project/data/dolly_test.jsonl', 'w+') as outfile: ...
TestCell ==
    /\ cell = "test"
    /\ dir
    /\ files' = OpenWrite(files, TestPath, TestText)
    /\ writes' = [writes EXCEPT ![TestPath] = @ + 1]
    /\ Finish
    /\ UNCHANGED <<squad, source, dataset, dir>>
    /\ UNCHANGED <<assembler, written, failed, present>>

Next ==
    \/ \E k \in 1..Len(session) : RunCell(k)
    \/ LoadCell
    \/ PreprocessStmt
    \/ MakedirsCell
    \/ SplitTrain
    \/ SplitVal
    \/ TestCell

Spec == Init /\ [][Next]_vars

(***************************************************************************)
(* The configuration cells (the Configuration Assembler), the shell lines   *)
(* and the launches.  A Python statement that raises ends its cell.  A      *)
(* shell line (!cmd) that exits with an error raises nothing: IPython runs  *)
(* the next line, and the cell ends as one that succeeded.                  *)
(***************************************************************************)
\* config = OmegaConf.load(<training template>)
TrainLoadCell ==
    /\ cell = "trainLoad"
    /\ IF yaml[TuningTemplate].exists
       THEN /\ config' = [bound |-> TRUE, doc |-> yaml[TuningTemplate].doc]
            /\ Finish
       ELSE /\ Abort("FileNotFoundError")
            /\ UNCHANGED config
    /\ UNCHANGED <<preparer, yaml, written, failed, present>>

\* the assignments config.<path> = <value> of the training override cell
TrainOverrideCell ==
    /\ cell = "trainOverride"
    /\ IF ~config.bound
       THEN Abort("NameError") /\ UNCHANGED config
       ELSE LET r == Override(config.doc, overrides.train) IN
            /\ config' = [bound |-> TRUE, doc |-> r.doc]
            /\ IF r.err = "none" THEN Finish ELSE Abort(r.err)
    /\ UNCHANGED <<preparer, yaml, written, failed, present>>

\* OmegaConf.save(config, name): the file holds the document, or the write
\* fails (OSError) before the file is opened or before its end is written
Save(name, doc) ==
    \/ /\ yaml' = [yaml EXCEPT ![name] = YamlOf(doc)]
       /\ Finish
    \/ /\ \/ yaml' = [yaml EXCEPT ![name] = Truncated]
          \/ UNCHANGED yaml
       /\ Abort("OSError")

\* OmegaConf.save(config, "llama-config.yaml")
TrainSaveCell ==
    /\ cell = "trainSave"
    /\ IF ~config.bound
       THEN Abort("NameError") /\ UNCHANGED yaml
       ELSE Save(TrainConfig, config.doc)
    /\ UNCHANGED <<preparer, config, written, failed, present>>

\* !mv <name> /opt/NeMo/examples/nlp/language_modeling/tuning/conf/
Mv(name) ==
    \/ /\ yaml[name].exists
       /\ yaml' = [yaml EXCEPT ![InConf(name)] = yaml[name], ![name] = NoYaml]
       /\ UNCHANGED failed
    \/ /\ UNCHANGED yaml
       /\ failed' = TRUE

\* !python <script> --config-name=<name>: the process reads the file of that
\* name in the directory of the templates; it may exit with an error, and
\* does when there is no such file or the file is not whole
Launch(name) ==
    \/ yaml[InConf(name)].whole /\ UNCHANGED failed
    \/ failed' = TRUE

\* !mv llama-config.yaml <conf>
TrainMvCell ==
    /\ cell = "trainMv"
    /\ Mv(TrainConfig)
    /\ Finish
    /\ UNCHANGED <<preparer, config, written, present>>

\* !python megatron_gpt_peft_tuning.py --config-name=llama-config.yaml
TrainLaunchCell ==
    /\ cell = "trainLaunch"
    /\ Launch(TrainConfig)
    /\ Finish
    /\ UNCHANGED <<preparer, config, yaml, written, present>>

\* a variant of EvalConfigCell that goes on to the save when the load fails
\* and config is bound
EvalConfigGoesOn ==
    /\ cell = "evalConfig"
    /\ IF ~yaml[EvalTemplate].exists
       THEN IF config.bound
            THEN Save(EvalConfig, config.doc) /\ UNCHANGED config
            ELSE Abort("FileNotFoundError") /\ UNCHANGED <<config, yaml>>
       ELSE LET r == Override(yaml[EvalTemplate].doc, overrides.eval) IN
            /\ config' = [bound |-> TRUE, doc |-> r.doc]
            /\ IF r.err = "none"
               THEN Save(EvalConfig, r.doc)
               ELSE Abort(r.err) /\ UNCHANGED yaml
    /\ UNCHANGED <<preparer, written, failed, present>>

\* the document loaded, with the values that bound has for its keys
Under(bound, loaded) ==
    [q \in DOMAIN loaded |->
        IF q \in DOMAIN bound /\ bound[q].kind = "leaf" /\ loaded[q].kind = "leaf"
        THEN bound[q] ELSE loaded[q]]

\* a variant of EvalConfigCell that keeps the values of the document config
\* is bound to, for the keys the template has too
EvalConfigOnBound ==
    /\ cell = "evalConfig"
    /\ IF ~yaml[EvalTemplate].exists
       THEN Abort("FileNotFoundError") /\ UNCHANGED <<config, yaml>>
       ELSE LET r == Override(IF config.bound
                              THEN Under(config.doc, yaml[EvalTemplate].doc)
                              ELSE yaml[EvalTemplate].doc, overrides.eval) IN
            /\ config' = [bound |-> TRUE, doc |-> r.doc]
            /\ IF r.err = "none"
               THEN Save(EvalConfig, r.doc)
               ELSE Abort(r.err) /\ UNCHANGED yaml
    /\ UNCHANGED <<preparer, written, failed, present>>

\* the evaluation configuration cell: config = OmegaConf.load(<evaluation
\* template>), the assignments, OmegaConf.save(config, "llama-eval-config.yaml")
EvalConfigCell ==
    /\ cell = "evalConfig"
    /\ IF ~yaml[EvalTemplate].exists
       THEN Abort("FileNotFoundError") /\ UNCHANGED <<config, yaml>>
       ELSE LET r == Override(yaml[EvalTemplate].doc, overrides.eval) IN
            /\ config' = [bound |-> TRUE, doc |-> r.doc]
            /\ IF r.err = "none"
               THEN Save(EvalConfig, r.doc)
               ELSE Abort(r.err) /\ UNCHANGED yaml
    /\ UNCHANGED <<preparer, written, failed, present>>

\* the first line of the last cell: !mv llama-eval-config.yaml <conf>
EvalMv ==
    /\ cell = "evalLaunch"
    /\ stmt = 1
    /\ Mv(EvalConfig)
    /\ stmt' = 2
    /\ UNCHANGED <<cell, nextCell, err>>
    /\ UNCHANGED <<preparer, config, written, present>>

\* its second line: !python megatron_gpt_peft_eval.py --config-name=llama-eval-config.yaml
EvalRun ==
    /\ cell = "evalLaunch"
    /\ stmt = 2
    /\ Launch(EvalConfig)
    /\ Finish
    /\ UNCHANGED <<preparer, config, yaml, written, present>>

\* llama2-lora-ft.ipynb: os.makedirs(DATA_DIR, exist_ok=True);
\* os.makedirs(SQUAD_DIR, exist_ok=True)
SquadDirsCell ==
    /\ cell = "squadDirs"
    /\ dir' = TRUE
    /\ present' = present \cup {SQUAD_DIR}
    /\ Finish
    /\ UNCHANGED <<squad, source, dataset, files, writes, assembler, written, failed>>

\* !wget -nc <url>/<name>: the file is in the working directory, or wget
\* exits with an error
Wget(name) ==
    \/ present' = present \cup {name} /\ UNCHANGED failed
    \/ UNCHANGED present /\ failed' = TRUE

\* !mv <name> {SQUAD_DIR}
MvSquad(name) ==
    \/ /\ name \in present
       /\ SQUAD_DIR \in present
       /\ present' = (present \ {name}) \cup {SQUAD_DIR \o "/" \o name}
       /\ UNCHANGED failed
    \/ UNCHANGED present /\ failed' = TRUE

\* one line of the cell that downloads SQuAD: two wget lines, two mv lines
DownloadLine ==
    /\ cell = "download"
    /\ IF stmt <= Len(SquadFiles)
       THEN Wget(SquadFiles[stmt])
       ELSE MvSquad(SquadFiles[stmt - Len(SquadFiles)])
    /\ IF stmt < 2 * Len(SquadFiles)
       THEN stmt' = stmt + 1 /\ UNCHANGED <<cell, nextCell, err>>
       ELSE Finish
    /\ UNCHANGED <<preparer, assembler, written>>

\* how many examples the preprocessing script makes of the downloaded
\* files: <<train, val>>
SquadSizes ==
    { <<0, 0>>, <<HeadTrain - 1, HeadVal + 1>>, <<HeadTrain, HeadVal>>,
      <<HeadTrain + 1, HeadVal - 1>> }

\* !python prompt_learning_squad_preprocessing.py --sft-format --data-dir {SQUAD_DIR}:
\* squad_train.jsonl and squad_val.jsonl are written from the downloaded
\* files; without these the script exits with an error
SquadPreprocessCell ==
    /\ cell = "squadPreprocess"
    /\ IF \A i \in 1..Len(SquadFiles) : (SQUAD_DIR \o "/" \o SquadFiles[i]) \in present
       THEN /\ \E s \in SquadSizes :
                 squad' = [squad EXCEPT
                              ![SquadTrain] = [exists |-> TRUE, lines |-> SquadTrainLines(s[1])],
                              ![SquadVal] = [exists |-> TRUE, lines |-> SquadValLines(s[2])]]
            /\ UNCHANGED failed
       ELSE UNCHANGED squad /\ failed' = TRUE
    /\ Finish
    /\ UNCHANGED <<source, dataset, dir, files, writes, assembler, written, present>>

\* a variant of HeadInto that redirects with >>
HeadOnto(n, from, to) ==
    IF SQUAD_DIR \notin present
    THEN UNCHANGED squad /\ failed' = TRUE
    ELSE IF ~squad[from].exists
         THEN /\ squad' = [squad EXCEPT ![to] = [exists |-> TRUE, lines |-> squad[to].lines]]
              /\ failed' = TRUE
         ELSE /\ squad' = [squad EXCEPT ![to] =
                              [exists |-> TRUE,
                               lines |-> squad[to].lines \o HeadLines(n, squad[from].lines)]]
              /\ UNCHANGED failed

\* ! head -<n> <from> > <to>: the shell makes <to> an empty file, which it
\* cannot without the directory, and head writes the lines
HeadInto(n, from, to) ==
    IF SQUAD_DIR \notin present
    THEN UNCHANGED squad /\ failed' = TRUE
    ELSE IF ~squad[from].exists
         THEN /\ squad' = [squad EXCEPT ![to] = [exists |-> TRUE, lines |-> << >>]]
              /\ failed' = TRUE
         ELSE /\ squad' = [squad EXCEPT ![to] =
                              [exists |-> TRUE, lines |-> HeadLines(n, squad[from].lines)]]
              /\ UNCHANGED failed

\* one line of the cell that shortens the dataset: two head lines that
\* write a file, two that print
ShortenLine ==
    /\ cell = "shorten"
    /\ CASE stmt = 1 -> HeadInto(HeadTrain, SquadTrain, ShortTrain)
         [] stmt = 2 -> HeadInto(HeadVal, SquadVal, ShortVal)
         [] OTHER -> UNCHANGED <<squad, failed>>
    /\ IF stmt < 4
       THEN stmt' = stmt + 1 /\ UNCHANGED <<cell, nextCell, err>>
       ELSE Finish
    /\ UNCHANGED <<source, dataset, dir, files, writes, assembler, written, present>>

(***************************************************************************)
(* The sessions of the notebooks: llama2-ptuning.ipynb, llama2-lora-ft.ipynb *)
(* and the three Assembler cells on their own, with any document as the     *)
(* template and any assignments in the override cell.                       *)
(***************************************************************************)
\* a source of a few rows, of which the filter keeps some
SmallSources == {Periodic(3, 1, 1)}

\* the document of the spec's example, {model: {precision: 16}}
ExampleTemplate == Document(<< <<"model.precision", "16">> >>)

Docs == TuningTemplates \cup {ExampleTemplate}

OverrideKeys ==
    {"model.precision", "model.data.train_ds.file_names",
     "trainer.val_check_interval", "peft_scheme", "model"}

OverrideValues == {"32", "[\"a.jsonl\"]"}

\* the assignments an override cell of the Assembler session is made of
OverrideItems ==
    { <<"model.precision", "32">>, <<"model.precision", "[\"a.jsonl\"]">>,
      <<"model.data.train_ds.file_names", "[\"a.jsonl\"]">>,
      <<"trainer.val_check_interval", "32">>,
      <<"peft_scheme", "32">>, <<"model", "32">> }

OverrideLists == SeqsUpTo(OverrideItems, MaxOverrides)

\* what an earlier session left in the directory of the templates
StaleYaml == YamlOf(Document(<< <<"name", "stale">> >>))

\* the YAML files at the start: the two templates (or no file where one
\* should be), and in the directory of the templates what an earlier
\* session left there, or nothing
YamlAtStart(tuning, eval, left) ==
    [p \in YamlPaths |->
        CASE p = TuningTemplate -> tuning
          [] p = EvalTemplate   -> eval
          [] p \in {InConf(TrainConfig), InConf(EvalConfig)} ->
                IF left THEN StaleYaml ELSE NoYaml
          [] OTHER -> NoYaml]

\* the SQuAD files an earlier session left: the shortened files, and with
\* them or not the files they were made of
SquadLeft(all) ==
    [p \in SquadPaths |->
        CASE p \in {ShortTrain, ShortVal} -> [exists |-> TRUE, lines |-> <<StaleLine>>]
          [] p = SquadTrain -> IF all THEN [exists |-> TRUE, lines |-> SquadTrainLines(2)] ELSE NoLines
          [] p = SquadVal -> IF all THEN [exists |-> TRUE, lines |-> SquadValLines(1)] ELSE NoLines]

\* the templates of the container, or no file where one should be
TemplateFiles(docs) == {NoYaml} \cup {YamlOf(d) : d \in docs}

InitNotebooks ==
    /\ \E left \in BOOLEAN :
        /\ IF left
           THEN dir = TRUE /\ files = [p \in Paths |-> [exists |-> TRUE, content |-> StaleText]]
           ELSE dir = FALSE /\ files = [p \in Paths |-> NoFile]
        /\ \/ /\ session = PtuningCells
              /\ ~left
              /\ LLAMA2_SIZE = DefaultSize
              /\ overrides = [train |-> PtuningTrainOverrides, eval |-> PtuningEvalOverrides]
              /\ source \in SmallSources
              /\ \E t \in TemplateFiles(TuningTemplates), e \in TemplateFiles(EvalTemplates) :
                    /\ \/ t = YamlOf(CHOOSE d \in TuningTemplates : TRUE)
                       \/ e = YamlOf(CHOOSE d \in EvalTemplates : TRUE)
                    /\ yaml = YamlAtStart(t, e, left)
              /\ present = {}
              /\ squad = NoSquad
           \/ /\ session = LoraCells
              /\ LLAMA2_SIZE \in (IF left THEN {DefaultSize} ELSE Sizes)
              /\ overrides = [train |-> LoraTrainOverrides, eval |-> LoraEvalOverrides]
              /\ source = << >>
              /\ \E t \in TemplateFiles(TuningTemplates), e \in TemplateFiles(EvalTemplates) :
                    /\ \/ t = YamlOf(CHOOSE d \in TuningTemplates : TRUE)
                       \/ e = YamlOf(CHOOSE d \in EvalTemplates : TRUE)
                    /\ (left \/ LLAMA2_SIZE # DefaultSize) =>
                          /\ t = YamlOf(CHOOSE d \in TuningTemplates : TRUE)
                          /\ e = YamlOf(CHOOSE d \in EvalTemplates : TRUE)
                    /\ yaml = YamlAtStart(t, e, left)
              /\ present = {}
              /\ squad = NoSquad
           \/ /\ session = SquadCells
              /\ LLAMA2_SIZE = DefaultSize
              /\ overrides = [train |-> << >>, eval |-> << >>]
              /\ source = << >>
              /\ yaml = YamlAtStart(NoYaml, NoYaml, left)
              /\ IF left
                 THEN present = {SQUAD_DIR} /\ squad = SquadLeft(FALSE)
                 ELSE present = {} /\ squad = NoSquad
           \/ /\ session = ShortLoraCells
              /\ ~left
              /\ LLAMA2_SIZE = DefaultSize
              /\ overrides = [train |-> LoraTrainOverrides, eval |-> LoraEvalOverrides]
              /\ source = << >>
              /\ yaml = YamlAtStart(YamlOf(CHOOSE t \in TuningTemplates : TRUE),
                                    YamlOf(CHOOSE e \in EvalTemplates : TRUE), left)
              /\ \/ present = {} /\ squad = NoSquad
                 \/ present = {SQUAD_DIR} /\ squad = SquadLeft(TRUE)
           \/ /\ session = AssemblerCells
              /\ ~left
              /\ LLAMA2_SIZE = DefaultSize
              /\ overrides \in [train : OverrideLists, eval : {<< >>}]
              /\ source = << >>
              /\ \E d \in Docs : yaml = YamlAtStart(YamlOf(d), NoYaml, left)
              /\ present = {}
              /\ squad = NoSquad
    /\ other = 0
    /\ Fresh

NextNotebooks ==
    \/ \E k \in 1..Len(session) : RunCell(k)
    \/ LoadCell
    \/ PreprocessStmt
    \/ MakedirsCell
    \/ SplitTrain
    \/ SplitVal
    \/ TestCell
    \/ TrainLoadCell
    \/ TrainOverrideCell
    \/ TrainSaveCell
    \/ TrainMvCell
    \/ TrainLaunchCell
    \/ EvalConfigCell
    \/ EvalMv
    \/ EvalRun
    \/ SquadDirsCell
    \/ DownloadLine
    \/ SquadPreprocessCell
    \/ ShortenLine

SpecNotebooks == InitNotebooks /\ [][NextNotebooks]_vars

(***************************************************************************)
(* Both notebooks open, each in a kernel of its own.  They are in the same  *)
(* directory, /project/code, which is the working directory of both        *)
(* kernels, and they save and move files of the same names.  This notebook  *)
(* is llama2-lora-ft.ipynb; of llama2-ptuning.ipynb, whose kernel has run   *)
(* its cells up to the override cell, the cells that write files run in     *)
(* their order, at any time.                                                *)
(***************************************************************************)
\* the cells of llama2-ptuning.ipynb that write configuration files
OtherCells == <<"trainSave", "trainMv", "evalConfig", "evalMv">>

\* the document config is bound to in the other kernel after its override
\* cell, and after the assignments of its evaluation cell
OtherTrainDoc == Override(yaml[TuningTemplate].doc, PtuningTrainOverrides).doc

OtherEvalDoc == Override(yaml[EvalTemplate].doc, PtuningEvalOverrides).doc

\* OmegaConf.save(config, name) in the other kernel: the file holds the
\* document, or the write fails and the cell is there to be run again
OtherSave(name, doc) ==
    /\ \/ /\ yaml' = [yaml EXCEPT ![name] = YamlOf(doc)]
          /\ other' = other + 1
       \/ /\ \/ yaml' = [yaml EXCEPT ![name] = Truncated]
             \/ UNCHANGED yaml
          /\ UNCHANGED other
    /\ UNCHANGED <<preparer, config, cell, stmt, nextCell, err, failed, present,
                   session, overrides, reruns, LLAMA2_SIZE>>

\* !mv <name> <conf> in the other kernel: it moves the file of that name
\* that is in the working directory, or exits with an error
OtherMv(name) ==
    /\ \/ /\ yaml[name].exists
          /\ yaml' = [yaml EXCEPT ![InConf(name)] = yaml[name], ![name] = NoYaml]
       \/ UNCHANGED yaml
    /\ other' = other + 1
    /\ UNCHANGED <<preparer, config, cell, stmt, nextCell, err, failed, present,
                   session, overrides, reruns, LLAMA2_SIZE>>

OtherTrainSave ==
    /\ other = 1
    /\ OtherSave(TrainConfig, OtherTrainDoc)

OtherTrainMv ==
    /\ other = 2
    /\ OtherMv(TrainConfig)

OtherEvalConfig ==
    /\ other = 3
    /\ OtherSave(EvalConfig, OtherEvalDoc)

OtherEvalMv ==
    /\ other = 4
    /\ OtherMv(EvalConfig)

InitTwo ==
    /\ session = LoraCells
    /\ overrides = [train |-> LoraTrainOverrides, eval |-> LoraEvalOverrides]
    /\ source = << >>
    /\ dir = FALSE
    /\ files = [p \in Paths |-> NoFile]
    /\ \E t \in TuningTemplates, e \in EvalTemplates :
          yaml = YamlAtStart(YamlOf(t), YamlOf(e), FALSE)
    /\ LLAMA2_SIZE = DefaultSize
    /\ other \in {1, Len(OtherCells) + 1}
    /\ present = {}
    /\ squad = NoSquad
    /\ Fresh

NextTwo ==
    \/ \E k \in 1..Len(session) : RunCell(k)
    \/ TrainLoadCell
    \/ TrainOverrideCell
    \/ TrainSaveCell
    \/ TrainMvCell
    \/ TrainLaunchCell
    \/ EvalConfigCell
    \/ EvalMv
    \/ EvalRun
    \/ OtherTrainSave
    \/ OtherTrainMv
    \/ OtherEvalConfig
    \/ OtherEvalMv

SpecTwo == InitTwo /\ [][NextTwo]_vars

(***************************************************************************)
(* code/scripts/init.sh, which the cell "Getting the model" runs: the clone *)
(* of the weights and their conversion, when there is no .nemo file yet.    *)
(* The script has no set -e and tests no exit status.                       *)
(***************************************************************************)
\* /project/models/llama-$LLAMA2_SIZE.nemo
NemoPath(size) == "/project/models/llama-" \o size \o ".nemo"

\* /project/models/Llama-2-$LLAMA2_SIZE-hf, the directory of the clone
HfDir(size) == "/project/models/Llama-2-" \o size \o "-hf"

\* the weight files of the clone, there when all of them are fetched
HfWeights(size) == HfDir(size) \o "/*.safetensors"

InitCells == <<"init">>

\* what an earlier run of the script can have left in /project/models:
\* nothing, a clone that was interrupted, the weights cloned, the .nemo file
Leftovers(size) ==
    { {}, {HfDir(size)}, {HfDir(size), HfWeights(size)},
      {HfDir(size), HfWeights(size), NemoPath(size)}, {NemoPath(size)} }

InitScript ==
    /\ LLAMA2_SIZE \in Sizes
    /\ present \in Leftovers(LLAMA2_SIZE)
    /\ session = InitCells
    /\ source = << >>
    /\ dir = FALSE
    /\ files = [p \in Paths |-> NoFile]
    /\ overrides = [train |-> << >>, eval |-> << >>]
    /\ yaml = [p \in YamlPaths |-> NoYaml]
    /\ dataset = Unbound
    /\ cell = "none"
    /\ stmt = 0
    /\ nextCell = 1
    /\ err = "none"
    /\ writes = [p \in Paths |-> 0]
    /\ config = NoConfig
    /\ failed = FALSE
    /\ reruns = 0
    /\ other = 0
    /\ squad = NoSquad

\* !bash /project/code/scripts/init.sh
InvokeInit ==
    /\ cell = "none"
    /\ cell' = "init"
    /\ stmt' = 1
    /\ err' = "none"
    /\ UNCHANGED <<preparer, assembler, written, nextCell, failed, present>>

\* a variant of InitTest that takes the branch of the clone whatever there is
InitTestAlways ==
    /\ cell = "init"
    /\ stmt = 1
    /\ stmt' = 2
    /\ UNCHANGED <<cell, nextCell, err>>
    /\ UNCHANGED <<preparer, assembler, written, failed, present>>

\* if [ ! -f /project/models/llama-$LLAMA2_SIZE.nemo ]
InitTest ==
    /\ cell = "init"
    /\ stmt = 1
    /\ stmt' = IF NemoPath(LLAMA2_SIZE) \in present THEN 5 ELSE 2
    /\ UNCHANGED <<cell, nextCell, err>>
    /\ UNCHANGED <<preparer, assembler, written, failed, present>>

\* cd /project/models && git lfs clone ...: all the weights are fetched into
\* a new directory Llama-2-$LLAMA2_SIZE-hf
InitCloneOk ==
    /\ cell = "init"
    /\ stmt = 2
    /\ HfDir(LLAMA2_SIZE) \notin present
    /\ present' = present \cup {HfDir(LLAMA2_SIZE), HfWeights(LLAMA2_SIZE)}
    /\ stmt' = 3
    /\ UNCHANGED <<cell, nextCell, err>>
    /\ UNCHANGED <<preparer, assembler, written, failed>>

\* the clone exits with an error: git refuses a destination that exists and
\* is not empty; without one the clone fails before it makes the directory,
\* or is interrupted while it fetches the weights.  The script goes on.
InitCloneFails ==
    /\ cell = "init"
    /\ stmt = 2
    /\ IF HfDir(LLAMA2_SIZE) \in present
       THEN UNCHANGED present
       ELSE \/ UNCHANGED present
            \/ present' = present \cup {HfDir(LLAMA2_SIZE)}
    /\ stmt' = 3
    /\ UNCHANGED <<cell, nextCell, err>>
    /\ UNCHANGED <<preparer, assembler, written, failed>>

\* python convert_hf_llama_to_nemo.py --in-file=<clone> --out-file=<.nemo>
InitConvertOk ==
    /\ cell = "init"
    /\ stmt = 3
    /\ HfWeights(LLAMA2_SIZE) \in present
    /\ present' = present \cup {NemoPath(LLAMA2_SIZE)}
    /\ stmt' = 4
    /\ UNCHANGED <<cell, nextCell, err>>
    /\ UNCHANGED <<preparer, assembler, written, failed>>

\* the conversion exits with an error and writes no file.  The script goes on.
InitConvertFails ==
    /\ cell = "init"
    /\ stmt = 3
    /\ stmt' = 4
    /\ UNCHANGED <<cell, nextCell, err>>
    /\ UNCHANGED <<preparer, assembler, written, failed, present>>

\* echo "llama-$LLAMA2_SIZE.nemo is ready"
InitReady ==
    /\ cell = "init"
    /\ stmt = 4
    /\ stmt' = 6
    /\ UNCHANGED <<cell, nextCell, err>>
    /\ UNCHANGED <<preparer, assembler, written, failed, present>>

\* echo "llama-$LLAMA2_SIZE.nemo already exists. Skipping."
InitSkip ==
    /\ cell = "init"
    /\ stmt = 5
    /\ stmt' = 6
    /\ UNCHANGED <<cell, nextCell, err>>
    /\ UNCHANGED <<preparer, assembler, written, failed, present>>

\* sleep 3; echo "Llama-2 ${LLAMA2_SIZE} model is initialized."
InitEnd ==
    /\ cell = "init"
    /\ stmt = 6
    /\ Finish
    /\ UNCHANGED <<preparer, assembler, written, failed, present>>

NextInit ==
    \/ InvokeInit
    \/ InitTest
    \/ InitCloneOk
    \/ InitCloneFails
    \/ InitConvertOk
    \/ InitConvertFails
    \/ InitReady
    \/ InitSkip
    \/ InitEnd

SpecInit == InitScript /\ [][NextInit]_vars

\* a line of the script that is being run
InitLine ==
    \/ InitTest
    \/ InitCloneOk
    \/ InitCloneFails
    \/ InitConvertOk
    \/ InitConvertFails
    \/ InitReady
    \/ InitSkip
    \/ InitEnd

\* the script is invoked again and again, each invocation runs to its end,
\* and a clone or a conversion that can succeed again and again does
SpecInitLive ==
    /\ SpecInit
    /\ WF_vars(InvokeInit)
    /\ WF_vars(InitLine)
    /\ SF_vars(InitCloneOk)
    /\ SF_vars(InitConvertOk)

(***************************************************************************)
(* What the claims speak of.                                                *)
(***************************************************************************)
\* the cell has completed, and no cell before it was run again since
Done(c) == cell = "none" /\ nextCell > CellIndex(c)

\* the examples of the dataset, as dicts, in order
Examples(ds) == [r \in 1..Len(ds.rows) |-> Item(ds, r)]

TrainLines == Lines(files[TrainPath].content)
ValLines == Lines(files[ValPath].content)
TestLines == Lines(files[TestPath].content)

\* floor(9n/10), stated without the division of the code
Floor09(n) == CHOOSE t \in 0..n : 10 * t <= 9 * n /\ 10 * (t + 1) > 9 * n

\* the number of positions of seq that hold x
Count(seq, x) == Cardinality({i \in 1..Len(seq) : seq[i] = x})

\* train holds the first floor(0.9*N) of the N lines of rows and val the
\* others, in order
SplitOf(train, val, rows) ==
    /\ Len(train) = Floor09(Len(rows))
    /\ Len(val) = Len(rows) - Floor09(Len(rows))
    /\ train \o val = rows

\* C1: after the split cell, for a dataset of N examples, the train file
\* holds floor(0.9*N) examples and the validation file the other
\* N - floor(0.9*N), and the train file's examples followed by the
\* validation file's are the dataset's examples in their order.
C1_SplitSizesAndOrder ==
    Done("split") =>
        SplitOf(TrainLines, ValLines,
                [r \in 1..Len(dataset.rows) |-> Dumps(Item(dataset, r))])

\* a split of eleven examples: nine in the train file, two in the other
C1_Witness ==
    /\ Done("split")
    /\ Len(dataset.rows) = 11
    /\ Len(TrainLines) = 9
    /\ Len(ValLines) = 2

\* every line of rows is written to exactly one of the texts train and
\* val: line r is line r of train when r is within it, else line
\* r - len(train) of val, and a line is as often in the two together as it
\* is in rows
Partition(train, val, rows) ==
    /\ Len(train) + Len(val) = Len(rows)
    /\ \A r \in 1..Len(rows) :
         /\ (r <= Len(train)) => train[r] = rows[r]
         /\ (r > Len(train)) => val[r - Len(train)] = rows[r]
         /\ Count(train, rows[r]) + Count(val, rows[r]) = Count(rows, rows[r])

\* C2: after the split cell, every example of the dataset (a row; two rows
\* may hold the same values) is written to exactly one of the two files,
\* and no example is in both: the files' lines are, one for one, the rows.
C2_SplitPartition ==
    Done("split") =>
        Partition(TrainLines, ValLines, [r \in 1..Len(dataset.rows) |-> Dumps(Item(dataset, r))])

\* a split of rows that hold the same values, some on each side
C2_Witness ==
    /\ Done("split")
    /\ Len(TrainLines) >= 2
    /\ Len(ValLines) >= 1
    /\ \E r \in 1..Len(TrainLines) : TrainLines[r] = ValLines[1]

FinalColumns == <<"question", "context", "answer", "taskname">>

\* every row of ds has a taskname, and it is genqa
AllGenqa(ds) ==
    LET c == ColIndex(ds.columns, "taskname") IN
    c # 0 /\ \A r \in 1..Len(ds.rows) : ds.rows[r][c] = "genqa"

\* C3: the preprocessing cell applies filter, then rename, then inject: a
\* step that evaluates the filter predicate, or that removes rows, finds
\* the original field names (category among them) and leaves them, and the
\* step that sets taskname to genqa finds all three renames done.
C3_FilterRenameInject ==
    [][cell = "preprocess" =>
        /\ (stmt = 1 /\ dataset.rows # << >> /\ cell' = "preprocess")
              => dataset.columns = RawColumns
        /\ Len(dataset'.rows) < Len(dataset.rows)
              => dataset.columns = RawColumns /\ dataset'.columns = RawColumns
        /\ (dataset.rows # << >> /\ AllGenqa(dataset') /\ ~AllGenqa(dataset))
              => dataset.columns = FinalColumns /\ dataset'.columns = FinalColumns
      ]_vars

\* the cell has run on a source of which the filter removed rows and kept
\* others: the fields are renamed and every taskname is genqa
C3_Witness ==
    /\ Done("preprocess")
    /\ dataset.rows # << >>
    /\ Len(dataset.rows) < Len(source)
    /\ dataset.columns = FinalColumns
    /\ AllGenqa(dataset)

\* the instruction, context and response of a source row, which the cell
\* leaves as they are (the pool's rows differ in them)
Content(row) == SubSeq(row, 1, 3)

Category(row) == row[4]

\* C4: after the preprocessing cell the dataset holds exactly the source's
\* examples whose category is equal to closed_qa, in their order.
C4_KeepsExactlyClosedQa ==
    Done("preprocess") =>
        [r \in 1..Len(dataset.rows) |-> Content(dataset.rows[r])]
          = LET kept == SelectSeq(source, LAMBDA row : Category(row) = "closed_qa")
            IN  [r \in 1..Len(kept) |-> Content(kept[r])]

\* C5: after the preprocessing cell no example of the dataset is one whose
\* category was closed_qa in the source.
C5_ClosedQaRemoved ==
    Done("preprocess") =>
        \A r \in 1..Len(dataset.rows) :
            \A i \in 1..Len(source) :
                Content(source[i]) = Content(dataset.rows[r])
                    => Category(source[i]) # "closed_qa"

\* the result o of json.loads is an object with exactly the keys question,
\* context, answer and taskname, and its taskname is genqa
GenqaObject(o) ==
    /\ o.ok
    /\ Len(o.val) = 4
    /\ {o.val[i][1] : i \in 1..Len(o.val)} = {"question", "context", "answer", "taskname"}
    /\ \A i \in 1..Len(o.val) : o.val[i][1] = "taskname" => o.val[i][2] = "genqa"

\* the object a line of a dataset file holds is such an object
GenqaLine(line) == GenqaObject(Loads(line))

AllGenqaLines(lines) == \A i \in 1..Len(lines) : GenqaLine(lines[i])

\* C6: every line the split cell wrote to dolly_train.jsonl and to
\* dolly_val.jsonl is an object with exactly the keys question, context,
\* answer and taskname whose taskname is genqa, whatever the category of
\* the example was.
C6_KeysAndTaskname ==
    /\ (cell = "split" /\ stmt = 2) => AllGenqaLines(TrainLines)
    /\ Done("split") => AllGenqaLines(TrainLines) /\ AllGenqaLines(ValLines)

\* both files hold lines, of examples whose categories in the source were
\* closed_qa and closed_qa_v2
C6_Witness ==
    /\ Done("split")
    /\ TrainLines # << >>
    /\ ValLines # << >>
    /\ {Category(source[i]) : i \in 1..Len(source)} = {"closed_qa", "closed_qa_v2"}
    /\ Len(dataset.rows) = Len(source)

\* C7: for a source of 10 examples of which 4 have the category closed_qa,
\* the cells leave a train file of 3 lines and a validation file of 1 line,
\* each line an object with the keys question, context, answer and taskname
\* and the taskname genqa.
C7_EndToEnd ==
    (/\ Done("split")
     /\ Len(source) = 10
     /\ Cardinality({i \in 1..Len(source) : Category(source[i]) = "closed_qa"}) = 4)
    => /\ Len(TrainLines) = 3
       /\ Len(ValLines) = 1
       /\ AllGenqaLines(TrainLines)
       /\ AllGenqaLines(ValLines)

\* the text holds the examples one to a line, in order, each line the
\* JSON text of its example and ended by a newline, and nothing else
Serialized(content, examples) ==
    /\ content = "" \/ CharAt(content, Len(content)) = "\n"
    /\ Cardinality({i \in 1..Len(content) : CharAt(content, i) = "\n"}) = Len(examples)
    /\ Lines(content) = [i \in 1..Len(examples) |-> Dumps(examples[i])]

\* C8: a file the split cell or the test-file cell has written holds one
\* newline-terminated JSON object per example of that execution, in order,
\* and nothing else: not what the file held before, and not the lines of
\* an earlier execution of the cell.
C8_OverwritesWithLatest ==
    /\ Done("split") =>
          LET t == Floor09(Len(dataset.rows)) IN
          /\ Serialized(files[TrainPath].content,
                        SubSeq(Examples(dataset), 1, t))
          /\ Serialized(files[ValPath].content,
                        SubSeq(Examples(dataset), t + 1, Len(dataset.rows)))
    /\ Done("test") => Serialized(files[TestPath].content, test)

\* the split cell and the test-file cell have each run twice
C8_Witness ==
    /\ Done("test")
    /\ writes[TrainPath] = 2
    /\ writes[ValPath] = 2
    /\ writes[TestPath] = 2
    /\ Len(TrainLines) >= 2
    /\ Len(ValLines) >= 1

\* json.loads of every line
Parsed(lines) == [i \in 1..Len(lines) |-> Loads(lines[i])]

Read(examples) == [i \in 1..Len(examples) |-> [ok |-> TRUE, val |-> examples[i]]]

\* C9: parsing each line of a dataset file the cells have written gives
\* back the examples that were serialized: as many, in the same order, with
\* the same keys and values.
C9_RoundTrip ==
    /\ Done("split") => Parsed(TrainLines \o ValLines) = Read(Examples(dataset))
    /\ Done("test") => Parsed(TestLines) = Read(test)

\* the files hold examples with a quote, a backslash, a tab, a newline and
\* an empty string among their values
C9_Witness ==
    /\ Done("test")
    /\ \E r \in 1..Len(dataset.rows) : Content(dataset.rows[r]) = Content(Pool[1])
    /\ \E r \in 1..Len(dataset.rows) : Content(dataset.rows[r]) = Content(Pool[3])
    /\ \E r \in 1..Len(dataset.rows) : Content(dataset.rows[r]) = Content(Pool[4])

\* the preprocessing cell is running again: it has completed before, and
\* the dataset has not been loaded anew since
ReExecution == cell = "preprocess" /\ nextCell > CellIndex("preprocess")

\* C10 as claimed: the preprocessing cell run again on the dataset it has
\* transformed completes and yields that dataset: no step of it raises, and
\* none changes the dataset.
C10_Idempotent ==
    [][ReExecution => (err' = "none" /\ dataset' = dataset)]_vars

\* C10 as amended: the preprocessing cell run again on the dataset it has
\* transformed does not complete.  With rows left, the filter raises
\* KeyError (the rows have no category any more); with none, the filter
\* passes and the first rename_column raises ValueError (no column
\* instruction).  The exception leaves the dataset as the first run left it.
C10_RerunRaises ==
    [][ReExecution =>
        /\ dataset' = dataset
        /\ nextCell' = nextCell
        /\ IF dataset.rows # << >>
           THEN stmt = 1 /\ cell' = "none" /\ err' = "KeyError"
           ELSE \/ stmt = 1 /\ cell' = "preprocess" /\ stmt' = 2
                \/ stmt = 2 /\ cell' = "none" /\ err' = "ValueError"
      ]_vars

\* the cell was run again on a transformed dataset with rows, and raised
C10_Witness ==
    /\ cell = "none"
    /\ err = "KeyError"
    /\ nextCell > CellIndex("preprocess")
    /\ dataset.rows # << >>
    /\ dataset.columns = FinalColumns
    /\ AllGenqa(dataset)

\* the statement the preprocessing cell is at renames a column that the
\* dataset does not have
AbsentRename ==
    /\ cell = "preprocess"
    /\ PreprocessCell[stmt].op = "rename"
    /\ PreprocessCell[stmt].a \notin Range(dataset.columns)

\* C11: a rename request for a field that the examples do not have is a
\* no-op and not an error: the statement completes, the cell goes on (or
\* ends without an exception) and the dataset is as it was.
C11_AbsentRenameNoOp ==
    [][AbsentRename => (err' = "none" /\ dataset' = dataset)]_vars

\* the filter keeps no example of the source
FilterRemovesAll ==
    \A i \in 1..Len(source) : ~startswith(Category(source[i]), "closed_qa")

JustDone(c) ==
    /\ c \in Range(session)
    /\ cell = "none"
    /\ err = "none"
    /\ nextCell = CellIndex(c) + 1

\* one key path is the other, or an ancestor of it
Related(p, q) == IsPrefix(p, q) \/ IsPrefix(q, p)

\* in doc every key path that list assigns has the value of the last
\* assignment to it (when no later assignment is to a key path above or
\* below it)
LastWins(doc, list) ==
    \A i \in 1..Len(list) :
        (\A j \in (i + 1)..Len(list) :
            ~Related(KeyPath(list[i][1]), KeyPath(list[j][1])))
        => /\ KeyPath(list[i][1]) \in DOMAIN doc
           /\ doc[KeyPath(list[i][1])] = Leaf(list[i][2])

\* override(override(doc, [(k, v1)]), [(k, v2)]) = override(doc, [(k, v2)])
\* for the key paths and values of the model
LastWriteLaw(doc) ==
    \A k \in OverrideKeys : \A v1, v2 \in OverrideValues :
        Override(Override(doc, << <<k, v1>> >>).doc, << <<k, v2>> >>)
            = Override(doc, << <<k, v2>> >>)

ValCheckInterval == <<"trainer", "val_check_interval">>

\* C13: overrides are applied in the order written and the last assignment
\* to a key path wins.  For every document that the load cell binds config
\* to or the override cell leaves it bound to, every key path and values, override(override(doc,[(k,v1)]),[(k,v2)]) equals
\* override(doc,[(k,v2)]); after an override cell every key path of its list
\* has the value assigned last; and the training configuration the LoRA
\* notebook saves, its cells run in order, has trainer.val_check_interval
\* 50, not 1.0.
C13_LastWriteWins ==
    /\ (JustDone("trainLoad") \/ JustDone("trainOverride"))
          => LastWriteLaw(config.doc)
    /\ JustDone("trainOverride") => LastWins(config.doc, overrides.train)
    /\ (session = LoraCells /\ reruns = 0) =>
          \A p \in {TrainConfig, InConf(TrainConfig)} :
              (yaml[p].whole /\ yaml[p] # StaleYaml)
                  => /\ ValCheckInterval \in DOMAIN yaml[p].doc
                     /\ yaml[p].doc[ValCheckInterval] = Leaf("50")

\* the LoRA notebook has saved and moved its training configuration: the
\* template had another trainer.val_check_interval, the file has 50
C13_Witness ==
    /\ session = LoraCells
    /\ reruns = 0
    /\ JustDone("trainMv")
    /\ ~failed
    /\ yaml[TuningTemplate].doc[ValCheckInterval] = Leaf("0.2")
    /\ yaml[InConf(TrainConfig)].whole
    /\ yaml[InConf(TrainConfig)].doc[ValCheckInterval] = Leaf("50")

\* no assignment of list goes through a key that holds a value: every key
\* above an assigned key path is a mapping of doc, or is not in doc and is
\* not given a value by an earlier assignment
ThroughMappings(doc, list) ==
    \A i \in 1..Len(list) :
        \A n \in 1..(Len(KeyPath(list[i][1])) - 1) :
            /\ SubSeq(KeyPath(list[i][1]), 1, n) \in DOMAIN doc
                  => doc[SubSeq(KeyPath(list[i][1]), 1, n)].kind = "map"
            /\ \A j \in 1..(i - 1) :
                  KeyPath(list[j][1]) # SubSeq(KeyPath(list[i][1]), 1, n)

\* the overrides of the spec's example
ExampleOverrides ==
    << <<"model.precision", "32">>,
       <<"model.data.train_ds.file_names", "[\"a.jsonl\"]">> >>

\* C14: override applies a path-qualified assignment and creates the
\* intermediate mappings that the document lacks: an override cell whose
\* assignments go through mappings only, or through keys the document does
\* not have, raises nothing and leaves every assigned key path in the
\* document with its last value -- for the template {model: {precision: 16}}
\* and the overrides (model.precision, 32), (model.data.train_ds.file_names,
\* [a.jsonl]) the document with model.precision 32 and
\* model.data.train_ds.file_names [a.jsonl].
C14_CreatesIntermediates ==
    [][(TrainOverrideCell /\ config.bound
            /\ ThroughMappings(config.doc, overrides.train))
        => /\ err' = "none"
           /\ LastWins(config'.doc, overrides.train)
           /\ (config.doc = ExampleTemplate /\ overrides.train = ExampleOverrides)
                 => config'.doc = Document(ExampleOverrides)]_vars

\* some assignment of list is to a key path that doc does not have
HasNewKey(doc, list) ==
    \E i \in 1..Len(list) : KeyPath(list[i][1]) \notin DOMAIN doc

\* C15: an override whose key path is not in the template does not fail in
\* the Assembler: a cell whose assignments have such a key path (going
\* through mappings or keys the document does not have) raises no error of
\* the assignments, every assigned key path is in the document with its
\* last value, and the evaluation cell, which saves too, leaves that
\* document in llama-eval-config.yaml unless the write fails.
C15_UnknownKeyAdded ==
    [][/\ (TrainOverrideCell /\ config.bound
              /\ HasNewKey(config.doc, overrides.train)
              /\ ThroughMappings(config.doc, overrides.train))
          => /\ err' = "none"
             /\ LastWins(config'.doc, overrides.train)
       /\ (EvalConfigCell /\ yaml[EvalTemplate].exists
              /\ HasNewKey(yaml[EvalTemplate].doc, overrides.eval)
              /\ ThroughMappings(yaml[EvalTemplate].doc, overrides.eval))
          => /\ err' \in {"none", "OSError"}
             /\ LastWins(config'.doc, overrides.eval)
             /\ err' = "none" => yaml'[EvalConfig] = YamlOf(config'.doc)]_vars

\* the evaluation cell of the p-tuning notebook has run on a template
\* without a top-level peft_scheme: the saved document has the entry
C15_PtuningInstance ==
    (/\ session = PtuningCells
     /\ JustDone("evalConfig")
     /\ yaml[EvalTemplate].exists
     /\ <<"peft_scheme">> \notin DOMAIN yaml[EvalTemplate].doc)
    => /\ yaml[EvalConfig].whole
       /\ yaml[EvalConfig].doc[<<"peft_scheme">>] = Leaf("\"ptuning\"")

\* no assignment of list is to the key path q or to a key above it
Untargeted(q, list) ==
    \A i \in 1..Len(list) : ~IsPrefix(KeyPath(list[i][1]), q)

\* saved has every key path of template that list does not target, with
\* the value it has in template
Frame(template, list, saved) ==
    \A q \in DOMAIN template :
        Untargeted(q, list) => (q \in DOMAIN saved /\ saved[q] = template[q])

\* C16: override changes only the key paths in the override list.  When the
\* cells have run in order and the save cell has saved llama-config.yaml,
\* and whenever the evaluation cell has saved llama-eval-config.yaml, every
\* key path of the template that no assignment of the cell targets has in
\* the saved document the value it has in the template.
C16_Frame ==
    /\ (JustDone("trainSave") /\ reruns = 0)
          => /\ yaml[TrainConfig].whole
             /\ Frame(yaml[TuningTemplate].doc, overrides.train, yaml[TrainConfig].doc)
    /\ JustDone("evalConfig")
          => /\ yaml[EvalConfig].whole
             /\ Frame(yaml[EvalTemplate].doc, overrides.eval, yaml[EvalConfig].doc)

\* a training configuration is saved that differs from its template and
\* has a value of the template that no assignment targets
C16_Witness ==
    /\ JustDone("trainSave")
    /\ reruns = 0
    /\ yaml[TrainConfig].doc # yaml[TuningTemplate].doc
    /\ \E q \in DOMAIN yaml[TuningTemplate].doc :
          /\ Untargeted(q, overrides.train)
          /\ yaml[TuningTemplate].doc[q].kind = "leaf"
          /\ yaml[TrainConfig].doc[q] = yaml[TuningTemplate].doc[q]

\* C17: the training and evaluation runs of the Assembler share no mutable
\* state.  Whenever the evaluation cell has saved llama-eval-config.yaml,
\* whatever cells ran before it, the file holds the evaluation template
\* with the evaluation overrides applied, and a key path that a training
\* override assigns and no evaluation override targets is in it only if
\* the evaluation template has it, with the value of the template.
C17_EvalFromTemplate ==
    JustDone("evalConfig")
    => /\ yaml[EvalConfig] =
              YamlOf(Override(yaml[EvalTemplate].doc, overrides.eval).doc)
       /\ \A i \in 1..Len(overrides.train) :
             (/\ Untargeted(KeyPath(overrides.train[i][1]), overrides.eval)
              /\ KeyPath(overrides.train[i][1]) \in DOMAIN yaml[EvalConfig].doc)
             => /\ KeyPath(overrides.train[i][1]) \in DOMAIN yaml[EvalTemplate].doc
                /\ yaml[EvalConfig].doc[KeyPath(overrides.train[i][1])]
                      = yaml[EvalTemplate].doc[KeyPath(overrides.train[i][1])]

\* the training cells have run, config held trainer.precision "32", and the
\* evaluation cell has saved a document with the template's 16
C17_Witness ==
    /\ session = PtuningCells
    /\ JustDone("evalConfig")
    /\ yaml[InConf(TrainConfig)].whole
    /\ yaml[InConf(TrainConfig)].doc[<<"trainer", "precision">>] = Leaf("\"32\"")
    /\ <<"trainer", "precision">> \in DOMAIN yaml[EvalConfig].doc
    /\ yaml[EvalConfig].doc[<<"trainer", "precision">>] = Leaf("16")

\* C18: every error stops the run: once a step has failed (a Python
\* statement raised, or a shell line ended with an error) no later step of
\* that run executes -- the only step taken from a state with a failure is
\* the user starting a cell.
C18_ErrorStopsRun ==
    [][(failed \/ err # "none") => cell = "none"]_vars

\* the file name in the directory of the templates is the document config
\* is bound to, whole
Moved(name) ==
    /\ config.bound
    /\ yaml[InConf(name)] = YamlOf(config.doc)

\* C20: with the cells run in order, each external process is launched
\* only after its configuration file is completely written and moved into
\* the directory of the templates, and after the dataset files its
\* configuration names are completely written: the training launch finds
\* llama-config.yaml there holding the training document, and the train and
\* validation files holding every line of the split; the evaluation launch
\* finds llama-eval-config.yaml there holding the evaluation document, and
\* the test file holding its lines.
C20_LaunchAfterFiles ==
    [][/\ (TrainLaunchCell /\ reruns = 0)
          => /\ Moved(TrainConfig)
             /\ session = PtuningCells
                   => /\ files[TrainPath] = [exists |-> TRUE, content |-> TrainText(dataset)]
                      /\ files[ValPath] = [exists |-> TRUE, content |-> ValText(dataset)]
       /\ (EvalRun /\ reruns = 0)
          => /\ Moved(EvalConfig)
             /\ session = PtuningCells
                   => files[TestPath] = [exists |-> TRUE, content |-> TestText]]_vars

\* no file name has been produced: there is none in the working directory,
\* and in the directory of the templates none but what an earlier session
\* left
NotProduced(name) ==
    /\ yaml[name] = NoYaml
    /\ yaml[InConf(name)] \in {NoYaml, StaleYaml}

\* C19: if the path of a template does not resolve, the load fails and no
\* configuration file is produced: with no training template there is never
\* a llama-config.yaml, with no evaluation template never a
\* llama-eval-config.yaml -- also when config is still bound to the training
\* document -- and the cell that loads ends with FileNotFoundError.
C19_NoTemplateNoFile ==
    /\ ~yaml[TuningTemplate].exists
          => /\ NotProduced(TrainConfig)
             /\ ~config.bound
             /\ "trainLoad" \in Range(session) => nextCell <= CellIndex("trainLoad")
    /\ ~yaml[EvalTemplate].exists
          => /\ NotProduced(EvalConfig)
             /\ "evalConfig" \in Range(session) => nextCell <= CellIndex("evalConfig")

\* the evaluation cell has failed to load its template while config is
\* bound to the training document, saved and moved before
C19_Witness ==
    /\ ~yaml[EvalTemplate].exists
    /\ "evalConfig" \in Range(session)
    /\ nextCell = CellIndex("evalConfig")
    /\ cell = "none"
    /\ err = "FileNotFoundError"
    /\ config.bound
    /\ yaml[InConf(TrainConfig)] = YamlOf(config.doc)
    /\ NotProduced(EvalConfig)

\* C23: init.sh downloads and converts the model only when the file
\* /project/models/llama-$LLAMA2_SIZE.nemo is absent.  The lines of the
\* clone and of the conversion are reached only without the file; while
\* the file exists no step of the script changes what is in /project/models;
\* and the line of the conversion is reached only from the line of the
\* clone.
C23_OnlyWhenAbsent ==
    [][/\ (cell = "init" /\ stmt \in {2, 3})
             => NemoPath(LLAMA2_SIZE) \notin present
       /\ NemoPath(LLAMA2_SIZE) \in present => present' = present
       /\ (cell' = "init" /\ stmt' = 3) => (cell = "init" /\ stmt = 2)
       /\ (cell' = "init" /\ stmt' = 2) => NemoPath(LLAMA2_SIZE) \notin present]_vars

\* the script was run with the file there and nothing cloned: it is on the
\* line of the branch that skips
C23_Witness ==
    /\ cell = "init"
    /\ stmt = 5
    /\ present = {NemoPath(LLAMA2_SIZE)}

\* C27: whenever init.sh prints "llama-$LLAMA2_SIZE.nemo is ready" or
\* "Llama-2 ... model is initialized.", the file
\* /project/models/llama-$LLAMA2_SIZE.nemo exists.
C27_ReadyMeansFile ==
    [][(InitReady \/ InitEnd) => NemoPath(LLAMA2_SIZE) \in present]_vars

\* C28: re-invoking init.sh converges.  From what a partly failed earlier
\* run left (the weights cloned and not converted, or a clone that was
\* interrupted), with the script invoked again and again and the clone and
\* the conversion succeeding in the end, some invocation produces
\* llama-$LLAMA2_SIZE.nemo and every later one takes the branch that skips.
C28_Converges ==
    <>[](/\ NemoPath(LLAMA2_SIZE) \in present
         /\ cell = "init" => stmt \notin {2, 3})

\* the string that a Python string literal without escapes denotes
PyStr(lit) == SubSeq(lit, 2, Len(lit) - 1)

RestoreFromPath == <<"model", "restore_from_path">>

\* the configuration files a notebook has saved
SavedConfigs ==
    {p \in {TrainConfig, InConf(TrainConfig), EvalConfig, InConf(EvalConfig)} :
        yaml[p].whole /\ yaml[p] # StaleYaml}

\* C24: LLAMA2_SIZE selects the model size that is fine-tuned: for each of
\* the sizes 7b, 13b and 70b, model.restore_from_path in every training and
\* evaluation configuration that is saved is the file
\* /project/models/llama-$LLAMA2_SIZE.nemo that init.sh produces.
C24_SizeSelects ==
    session \in {PtuningCells, LoraCells} =>
    \A p \in SavedConfigs :
        /\ RestoreFromPath \in DOMAIN yaml[p].doc
        /\ PyStr(yaml[p].doc[RestoreFromPath].val) = NemoPath(LLAMA2_SIZE)

\* C26: for every order in which the cells of a notebook are run, the
\* document saved as llama-config.yaml is the training template with only
\* the training overrides applied: every llama-config.yaml that a notebook
\* has saved, in the working directory or moved, holds that document.
C26_TrainConfigAnyOrder ==
    session \in {PtuningCells, LoraCells} =>
    \A p \in {TrainConfig, InConf(TrainConfig)} :
        (yaml[p].whole /\ yaml[p] # StaleYaml)
        => yaml[p] = YamlOf(Override(yaml[TuningTemplate].doc, overrides.train).doc)

\* C21: a process never runs against a configuration that another run of
\* the Assembler rewrote: for every interleaving of the cells of the two
\* notebooks, when this notebook has saved its document, the cells run in
\* order, and the file is no longer in the working directory, the file of
\* that name its launch reads in the directory of the templates is the
\* document this notebook saved.
C21_LaunchReadsOwn ==
    [][/\ (TrainLaunchCell /\ reruns = 0 /\ ~yaml[TrainConfig].exists)
          => Moved(TrainConfig)
       /\ (EvalRun /\ reruns = 0 /\ ~yaml[EvalConfig].exists)
          => Moved(EvalConfig)]_vars

RECURSIVE ExecFrom(_, _)
\* the statements of the preprocessing cell from the i-th on, on ds
ExecFrom(ds, i) ==
    IF i > Len(PreprocessCell) THEN ds
    ELSE ExecFrom(Exec(PreprocessCell[i], ds).ds, i + 1)

\* the dataset that the load cell and the preprocessing cell make of src
Transformed(src) == ExecFrom([columns |-> RawColumns, rows |-> src], 1)

\* the two dataset files hold what the split cell writes of ds
SplitFilesOf(ds) ==
    /\ files[TrainPath] = [exists |-> TRUE, content |-> TrainText(ds)]
    /\ files[ValPath] = [exists |-> TRUE, content |-> ValText(ds)]

\* C22: repeated runs are deterministic.  Whenever the split cell has run,
\* for the first time or again over its own files, the train and
\* validation files are what the cells make of the fetched source, byte
\* for byte; and whenever the save cell of the
\* Assembler has run, for the first time or again, llama-config.yaml is
\* what the template and the assignments of the override cell give.
C22_Deterministic ==
    /\ (session = PtuningCells /\ Done("split"))
          => SplitFilesOf(Transformed(source))
    /\ (session = AssemblerCells /\ JustDone("trainSave"))
          => yaml[TrainConfig] =
                 YamlOf(Override(yaml[TuningTemplate].doc, overrides.train).doc)

\* the split cell has run a second time
C22_Witness ==
    /\ session = PtuningCells
    /\ Done("split")
    /\ writes[TrainPath] = 2
    /\ writes[ValPath] = 2
    /\ files[TrainPath].content # ""

\* the save cell of the Assembler has run a second time
C22_SavedAgain ==
    /\ session = AssemblerCells
    /\ JustDone("trainSave")
    /\ reruns > 0
    /\ overrides.train # << >>

\* the file at short holds the first min(n, length) lines of the file at
\* from, in their order, and no other line
PrefixOf(short, from, n) ==
    LET all == squad[from].lines
        cut == squad[short].lines
    IN  /\ squad[short].exists
        /\ Len(cut) = (IF Len(all) < n THEN Len(all) ELSE n)
        /\ \A i \in 1..Len(cut) : cut[i] = all[i]

\* C29: the shortened datasets are prefixes.  Whenever the cell that
\* shortens has run, for the first time or again, over nothing or over the
\* shortened files an earlier run left, squad_short_train.jsonl is the
\* first min(5000, N) lines of the N lines of squad_train.jsonl and
\* squad_short_val.jsonl the first min(500, M) lines of the M lines of
\* squad_val.jsonl, in the same order.
C29_ShortIsPrefix ==
    (/\ "shorten" \in Range(session)
     /\ Done("shorten")
     /\ squad[SquadTrain].exists
     /\ squad[SquadVal].exists)
        => /\ PrefixOf(ShortTrain, SquadTrain, HeadTrain)
           /\ PrefixOf(ShortVal, SquadVal, HeadVal)

\* the cell has run over a train file of more than 5000 lines and a
\* validation file of fewer than 500, and replaced the shortened files of
\* an earlier session
C29_Witness ==
    /\ session = SquadCells
    /\ Done("shorten")
    /\ yaml[InConf(TrainConfig)] = StaleYaml
    /\ Len(squad[SquadTrain].lines) = HeadTrain + 1
    /\ Len(squad[ShortTrain].lines) = HeadTrain
    /\ Len(squad[SquadVal].lines) = HeadVal - 1
    /\ Len(squad[ShortVal].lines) = HeadVal - 1

\* the cell has run again over its own files, made of more lines
C29_RunAgain ==
    /\ session = SquadCells
    /\ Done("shorten")
    /\ reruns > 0
    /\ Len(squad[SquadTrain].lines) = HeadTrain
    /\ Len(squad[ShortTrain].lines) = HeadTrain

TrainFileNames == <<"model", "data", "train_ds", "file_names">>

ValidationFileNames == <<"model", "data", "validation_ds", "file_names">>

\* the one path of a list literal of one string, ["<path>"]
OnePath(lit) == PyStr(PyStr(lit))

\* the document config is bound to names at key the one file path
Names(key, path) ==
    /\ config.bound
    /\ key \in DOMAIN config.doc
    /\ OnePath(config.doc[key].val) = path

\* C25: the files a step writes are the files the next step reads.  When
\* the cells have run in notebook order and the training is launched, the
\* train and validation file names of the training configuration are the
\* paths of the files the cells before wrote (dolly_train.jsonl and
\* dolly_val.jsonl in llama2-ptuning.ipynb, squad_short_train.jsonl and
\* squad_short_val.jsonl in llama2-lora-ft.ipynb), and these files exist.
C25_NextReadsWritten ==
    [][(TrainLaunchCell /\ reruns = 0) =>
          /\ session = PtuningCells =>
                /\ Names(TrainFileNames, TrainPath)
                /\ Names(ValidationFileNames, ValPath)
                /\ files[TrainPath].exists /\ writes[TrainPath] > 0
                /\ files[ValPath].exists /\ writes[ValPath] > 0
          /\ session = ShortLoraCells =>
                /\ Names(TrainFileNames, ShortTrain)
                /\ Names(ValidationFileNames, ShortVal)
                /\ squad[ShortTrain].exists
                /\ squad[ShortVal].exists]_vars

\* llama2-ptuning.ipynb has launched the training, in notebook order
C25_Witness ==
    /\ session = PtuningCells
    /\ JustDone("trainLaunch")
    /\ reruns = 0
    /\ files[TrainPath].content # ""
    /\ Names(TrainFileNames, TrainPath)

\* llama2-lora-ft.ipynb has launched the training, in notebook order
C25_LoraLaunched ==
    /\ session = ShortLoraCells
    /\ JustDone("trainLaunch")
    /\ reruns = 0
    /\ squad[ShortTrain].lines # << >>
    /\ Names(TrainFileNames, ShortTrain)

TrainPromptTemplate == <<"model", "data", "train_ds", "prompt_template">>

TestPromptTemplate == <<"model", "data", "test_ds", "prompt_template">>

\* the field names a prompt template refers to, each between { and the
\* next }
Fields(template) ==
    LET n == Len(template)
        opens == {i \in 1..n : CharAt(template, i) = "{"}
        Close(i) == CHOOSE j \in (i + 1)..n :
                        /\ CharAt(template, j) = "}"
                        /\ \A k \in (i + 1)..(j - 1) : CharAt(template, k) # "}"
    IN  {SubSeq(template, i + 1, Close(i) - 1) :
            i \in {o \in opens : \E j \in (o + 1)..n : CharAt(template, j) = "}"}}

\* the keys of the examples of a dataset file
KeysOf(path) ==
    LET lines == Lines(files[path].content) IN
    {Loads(lines[i]).val[k][1] :
        i \in 1..Len(lines), k \in 1..Len(FinalColumns)}

\* llama2-ptuning.ipynb has run in notebook order up to the evaluation
\* configuration cell: llama-config.yaml is in conf, config is bound to the
\* evaluation document
BothConfigured ==
    /\ session = PtuningCells
    /\ reruns = 0
    /\ Done("evalConfig")
    /\ yaml[InConf(TrainConfig)].whole
    /\ TrainPromptTemplate \in DOMAIN yaml[InConf(TrainConfig)].doc
    /\ TestPromptTemplate \in DOMAIN config.doc

\* every field of the evaluation prompt template is a key of every example
\* of the dataset files
C30_FieldsAreKeys ==
    BothConfigured =>
        \A p \in {TrainPath, ValPath, TestPath} :
            Fields(PyStr(config.doc[TestPromptTemplate].val)) \subseteq KeysOf(p)

\* C30: the prompt template of the evaluation is the one of the training.
\* In llama2-ptuning.ipynb model.data.test_ds.prompt_template of the
\* evaluation configuration is the same string as
\* model.data.train_ds.prompt_template of the training configuration, and
\* every field it refers to is a key of the examples of the dataset files.
C30_SamePromptTemplate ==
    BothConfigured =>
        /\ config.doc[TestPromptTemplate].val =
              yaml[InConf(TrainConfig)].doc[TrainPromptTemplate].val
        /\ \A p \in {TrainPath, ValPath, TestPath} :
              Fields(PyStr(config.doc[TestPromptTemplate].val)) \subseteq KeysOf(p)

====
